---- MODULE Spec2Model ----
(***************************************************************************)
(* A model of the SpacetimeDB row-serialization fast path                  *)
(* (crates/table/src/bflatn_to_bsatn_fast_path.rs) and of the query-plan   *)
(* algebra, index selection, optimizer and access gate                     *)
(* (crates/vm/src/expr.rs).                                                *)
(*                                                                         *)
(* Each subsystem is a small state machine over its own variables; the     *)
(* specifications SpecLayout, SpecAuth, SpecIndex and SpecOpt run one      *)
(* subsystem each and hold the other subsystems' variables idle.           *)
(***************************************************************************)
EXTENDS Integers, Sequences, FiniteSets, TLC

VARIABLES
    \* --- static BSATN layout (bflatn_to_bsatn_fast_path.rs) ---
    lpc,            \* "idle" | "new" | "built" | "serialized"
    row_type,       \* the row type (an AlgebraicType, top-level a product)
    static_layout,  \* Option<StaticBsatnLayout> computed by for_row_type
    row,            \* the BFLATN row handed to serialize_row_into
    buf,            \* the BSATN buffer written by serialize_row_into
    \* --- access gate (expr.rs, AuthAccess) ---
    apc,            \* "idle" | "new" | "checked"
    auth_expr,      \* the CrudExpr handed to check_auth
    owner,          \* the database owner's Identity
    caller,         \* the caller's Identity
    auth_result,    \* the Result<(), AuthError> of check_auth
    \* --- index selection (expr.rs, select_best_index) ---
    ipc,            \* "idle" | "new" | "selected"
    idx_header,     \* the Header whose indexes are offered
    idx_ops,        \* the conjunction, a sequence of ColumnOp nodes
    idx_found,      \* the IndexColumnOps returned
    idx_fields_indexed, \* the (FieldName, OpCmp) pairs an index serves
    \* --- optimizer (expr.rs, QueryExpr::optimize) ---
    opc,            \* "idle" | "new" | "optimized" | "reoptimized" | "semi_joined"
    opt_plan,       \* the QueryExpr handed to the optimizer
    opt_row_count,  \* the row_count oracle: table id -> rows
    optimized,      \* optimize(opt_plan)
    reoptimized,    \* optimize(optimized)
    semi_joined,    \* try_semi_join(opt_plan)
    \* --- source sets (expr.rs, SourceSet) ---
    ss_state,       \* "idle" | "built" | "panicked"
    source_set,     \* the SourceSet, one Option<T> per id added
    ss_before,      \* the SourceSet before the last operation
    ss_added,       \* the tables added so far, in order
    ss_taken,       \* the added ids taken before the last operation
    ss_last,        \* the last operation, its argument and what it returned
    \* --- conjunction flattening (expr.rs, flatten_ands) ---
    fpc,            \* "idle" | "new"
    flat_leaves,    \* the predicates the tree was built from, left to right
    flat_pred,      \* the predicate tree, a ColumnOp
    flat,           \* flatten_ands(flat_pred), once computed
    flat_ref,       \* flatten_ands_ref(flat_pred), once computed
    \* --- plan rewrites (expr.rs, with_index_*, try_index_join, reorder) ---
    rpc,            \* "idle" | "new" | the rewrite that ran
    rw_plan,        \* the QueryExpr a rewrite is applied to
    rw_arg,         \* the constraint handed to with_index_*: table and inclusive
    rw_join,        \* the IndexJoin handed to reorder
    rw_row_count,   \* the row_count oracle handed to reorder
    rw_out,         \* what the rewrite returned
    \* --- predicate evaluation (expr.rs, ColumnOp::compare) ---
    cpc,            \* "idle" | "new" | "compared"
    cmp_pred,       \* the predicate compared
    cmp_row,        \* the row it is compared on
    cmp_result      \* the outcome of ColumnOp::compare

layoutVars == <<lpc, row_type, static_layout, row, buf>>

authVars == <<apc, auth_expr, owner, caller, auth_result>>

indexVars == <<ipc, idx_header, idx_ops, idx_found, idx_fields_indexed>>

optVars == <<opc, opt_plan, opt_row_count, optimized, reoptimized, semi_joined>>

sourceVars == <<ss_state, source_set, ss_before, ss_added, ss_taken, ss_last>>

flattenVars == <<fpc, flat_leaves, flat_pred, flat, flat_ref>>

rewriteVars == <<rpc, rw_plan, rw_arg, rw_join, rw_row_count, rw_out>>

compareVars == <<cpc, cmp_pred, cmp_row, cmp_result>>

vars == <<layoutVars, authVars, indexVars, optVars, sourceVars, flattenVars, rewriteVars, compareVars>>

(***************************************************************************)
(* Generic helpers.                                                        *)
(***************************************************************************)
Max(S) == CHOOSE x \in S : \A y \in S : y <= x

RECURSIVE SumSeq(_)
SumSeq(s) == IF s = <<>> THEN 0 ELSE Head(s) + SumSeq(Tail(s))

RECURSIVE Concat(_)
Concat(ss) == IF ss = <<>> THEN <<>> ELSE Head(ss) \o Concat(Tail(ss))

SeqsUpTo(S, n) == UNION {[1 .. k -> S] : k \in 0 .. n}

\* A statement sequence: v is computed, then F runs on its value.
Bind(v, F(_)) == CHOOSE r \in {F(x) : x \in {v}} : TRUE

(***************************************************************************)
(* Row types (AlgebraicType) and their BFLATN layout                       *)
(* (AlgebraicTypeLayout).  The layout computation lives in layout.rs,      *)
(* which is not part of the sources at hand; it is modelled from the       *)
(* data-model section of the specification: elements of a product start    *)
(* at a multiple of their alignment, a sum is a 1-byte tag followed by     *)
(* padding up to the maximal variant alignment followed by the payload.    *)
(***************************************************************************)
Prim(n) == [kind |-> "Primitive", size |-> n]
VarLen == [kind |-> "VarLen"]
Product(es) == [kind |-> "Product", elements |-> es]
Sum(vs) == [kind |-> "Sum", variants |-> vs]

align_to(base, a) == ((base + a - 1) \div a) * a

RECURSIVE layout_of(_)
RECURSIVE product_elements(_, _)
\* The elements of a product with their aligned offsets: a sequence of
\* ProductTypeElementLayout { offset, ty }.
product_elements(es, n) ==
    IF n = 0 THEN <<>>
    ELSE LET before == product_elements(es, n - 1)
             ty == layout_of(es[n])
             end == IF n = 1 THEN 0
                    ELSE before[n - 1].offset + before[n - 1].ty.size
         IN Append(before, [offset |-> align_to(end, ty.align), ty |-> ty])

layout_of(ty) ==
    CASE ty.kind = "Primitive" ->
            [kind |-> "Primitive", size |-> ty.size, align |-> ty.size]
      [] ty.kind = "VarLen" ->
            [kind |-> "VarLen", size |-> 4, align |-> 2]
      [] ty.kind = "Product" ->
            LET elts == product_elements(ty.elements, Len(ty.elements))
                n == Len(elts)
                al == Max({1} \cup {elts[i].ty.align : i \in 1 .. n})
                end == IF n = 0 THEN 0 ELSE elts[n].offset + elts[n].ty.size
            IN [kind |-> "Product", elements |-> elts,
                size |-> align_to(end, al), align |-> al]
      [] ty.kind = "Sum" ->
            LET vs == [i \in 1 .. Len(ty.variants) |-> [ty |-> layout_of(ty.variants[i])]]
                n == Len(vs)
                al == Max({1} \cup {vs[i].ty.align : i \in 1 .. n})
                payload == align_to(Max({0} \cup {vs[i].ty.size : i \in 1 .. n}), al)
            IN [kind |-> "Sum", variants |-> vs, payload_offset |-> al,
                size |-> al + payload, align |-> al]

(***************************************************************************)
(* MemcpyField and LayoutBuilder.                                          *)
(***************************************************************************)
MemcpyField(bflatn, bsatn, len) ==
    [bflatn_offset |-> bflatn, bsatn_offset |-> bsatn, length |-> len]

is_empty(f) == f.length = 0

\* A builder is Option<LayoutBuilder>: ok = FALSE once a visit returned None.
new_builder == [ok |-> TRUE, fields |-> <<MemcpyField(0, 0, 0)>>]

NoBuilder == [ok |-> FALSE, fields |-> <<>>]

\* Option<StaticBsatnLayout>.
NoLayout == [some |-> FALSE, bsatn_length |-> 0, fields |-> <<>>]

\* build without the `!field.is_empty()` filter.
build_keep_empty(b) ==
    LET n == Len(b.fields)
    IN [some |-> TRUE,
        bsatn_length |-> b.fields[n].bsatn_offset + b.fields[n].length,
        fields |-> b.fields]

build(b) ==
    LET fields == SelectSeq(b.fields, LAMBDA f : ~is_empty(f))
        n == Len(fields)
    IN [some |-> TRUE,
        bsatn_length |-> IF n = 0 THEN 0
                         ELSE fields[n].bsatn_offset + fields[n].length,
        fields |-> fields]

current_field(b) == b.fields[Len(b.fields)]

next_bflatn_offset(b) == current_field(b).bflatn_offset + current_field(b).length

next_bsatn_offset(b) == current_field(b).bsatn_offset + current_field(b).length

push_field(b, f) == [b EXCEPT !.fields = Append(@, f)]

\* visit_primitive opening a record of its own for every primitive.
visit_primitive_apart(b, size) ==
    push_field(b, MemcpyField(current_field(b).bflatn_offset + current_field(b).length,
                              current_field(b).bsatn_offset + current_field(b).length, size))

visit_primitive(b, size) ==
    [b EXCEPT !.fields[Len(b.fields)].length = @ + size]

\* A new field only when the builder is past the element: never, for valid offsets.
starts_new_field_past(next, elt_offset) == next > elt_offset

\* `next_bflatn_offset != elt_offset`: padding before the element starts a
\* new field.
starts_new_field(next, elt_offset) == next # elt_offset

RECURSIVE visit_value(_, _)
RECURSIVE visit_product(_, _)
RECURSIVE visit_sum(_, _)
RECURSIVE visit_elements(_, _, _, _)

visit_product_element(b, elt, product_base_offset) ==
    LET elt_offset == product_base_offset + elt.offset
        b1 == IF starts_new_field(next_bflatn_offset(b), elt_offset)
              THEN push_field(b, MemcpyField(elt_offset, next_bsatn_offset(b), 0))
              ELSE b
    IN visit_value(b1, elt.ty)

\* The `for elt in product.elements` loop of visit_product, from element i.
visit_elements(b, elts, i, base) ==
    IF i > Len(elts) THEN b
    ELSE LET b1 == visit_product_element(b, elts[i], base)
         IN IF ~b1.ok THEN NoBuilder ELSE visit_elements(b1, elts, i + 1, base)

visit_product(b, product) ==
    visit_elements(b, product.elements, 1, next_bflatn_offset(b))

variant_layout(variant) ==
    LET b == visit_value(new_builder, variant.ty)
    IN IF b.ok THEN build(b) ELSE NoLayout

\* Variants compared by their BSATN length alone.
layouts_differ_in_length(later, first) == later.bsatn_length # first.bsatn_length

\* `later_variant_layout != first_variant_layout` (derived PartialEq).
layouts_differ(later, first) == later # first

\* The padding test off by one.
payload_is_padded_beyond_two(sum) == sum.payload_offset > 2

\* `sum.payload_offset > 1`: padding between the tag and the payload.
payload_is_padded(sum) == sum.payload_offset > 1

visit_sum(b, sum) ==
    IF Len(sum.variants) = 0 THEN NoBuilder
    ELSE
      LET first_variant == sum.variants[1]
          first_variant_layout == variant_layout(first_variant)
      IN IF ~first_variant_layout.some THEN NoBuilder
         ELSE IF \E i \in 2 .. Len(sum.variants) :
                    LET later == variant_layout(sum.variants[i])
                    IN ~later.some \/ layouts_differ(later, first_variant_layout)
         THEN NoBuilder
         ELSE IF first_variant_layout.bsatn_length = 0
         THEN visit_primitive(b, 1)
         ELSE
           LET tag_bflatn_offset == next_bflatn_offset(b)
               payload_bflatn_offset == tag_bflatn_offset + sum.payload_offset
               tag_bsatn_offset == next_bsatn_offset(b)
               payload_bsatn_offset == tag_bsatn_offset + 1
               b1 == visit_primitive(b, 1)
               b2 == IF payload_is_padded(sum)
                     THEN push_field(b1, MemcpyField(payload_bflatn_offset,
                                                     payload_bsatn_offset, 0))
                     ELSE b1
           IN visit_value(b2, first_variant.ty)

visit_value(b, val) ==
    CASE val.kind = "Sum" -> visit_sum(b, val)
      [] val.kind = "Product" -> visit_product(b, val)
      [] val.kind = "Primitive" -> visit_primitive(b, val.size)
      [] val.kind = "VarLen" -> NoBuilder

for_row_type(rt) ==
    LET b == visit_product(new_builder, rt)
    IN IF b.ok THEN build(b) ELSE NoLayout

(***************************************************************************)
(* Rows and the two serializers.                                           *)
(*                                                                         *)
(* A byte of a BFLATN row is named by its offset: the byte stored at       *)
(* offset o of a valid row has the symbolic value o, and a byte the row    *)
(* type leaves as padding is Uninit.  A valid row is given by the set of   *)
(* offsets its value initializes (which depends on the live variant of     *)
(* each sum) and by its general BSATN serialization: fields in order, no   *)
(* padding, a sum as its tag byte followed by the live variant's payload.  *)
(* The general serializer (bflatn_from / bsatn) is not part of the sources *)
(* at hand and is modelled from the specification's glossary.              *)
(***************************************************************************)
Uninit == 0 - 1

\* Bytes that live outside the fixed-length row (var-len data, length prefix).
VarData == 0 - 2

RECURSIVE row_values(_, _)
RECURSIVE product_values(_, _, _)
product_values(elts, n, base) ==
    IF n = 0 THEN {[init |-> {}, bsatn |-> <<>>]}
    ELSE {[init |-> p.init \cup v.init, bsatn |-> p.bsatn \o v.bsatn] :
            p \in product_values(elts, n - 1, base),
            v \in row_values(elts[n].ty, base + elts[n].offset)}

row_values(ty, base) ==
    CASE ty.kind = "Primitive" ->
            {[init |-> base .. base + ty.size - 1,
              bsatn |-> [i \in 1 .. ty.size |-> base + i - 1]]}
      [] ty.kind = "VarLen" ->
            {[init |-> base .. base + ty.size - 1, bsatn |-> <<VarData>>]}
      [] ty.kind = "Product" ->
            product_values(ty.elements, Len(ty.elements), base)
      [] ty.kind = "Sum" ->
            UNION {{[init |-> {base} \cup v.init, bsatn |-> <<base>> \o v.bsatn] :
                      v \in row_values(ty.variants[i].ty, base + ty.payload_offset)} :
                   i \in 1 .. Len(ty.variants)}

\* The row's bytes: `page.get_row_data(offset, size)`.
row_bytes(r, size) == [j \in 1 .. size |-> IF (j - 1) \in r.init THEN j - 1 ELSE Uninit]

\* MemcpyField::copy: buf[bsatn_offset + i] = row[bflatn_offset + i].
\* get_unchecked outside either slice is undefined behaviour, recorded as oob.
copy(field, out, bytes) ==
    LET len == field.length
        src(i) == field.bflatn_offset + i
        dst(i) == field.bsatn_offset + i
        inb == /\ field.bflatn_offset + len <= Len(bytes)
               /\ field.bsatn_offset + len <= Len(out.bytes)
    IN [bytes |-> [j \in 1 .. Len(out.bytes) |->
                     IF /\ j - 1 >= field.bsatn_offset
                        /\ j - 1 < field.bsatn_offset + len
                        /\ field.bflatn_offset + (j - 1 - field.bsatn_offset) < Len(bytes)
                     THEN bytes[field.bflatn_offset + (j - 1 - field.bsatn_offset) + 1]
                     ELSE out.bytes[j]],
        oob |-> out.oob \/ ~inb]

RECURSIVE copy_fields(_, _, _, _)
copy_fields(fields, i, out, bytes) ==
    IF i > Len(fields) THEN out
    ELSE copy_fields(fields, i + 1, copy(fields[i], out, bytes), bytes)

\* serialize_row_into on a buffer of exactly bsatn_length uninitialized bytes.
serialize_row_into(layout, bytes) ==
    copy_fields(layout.fields, 1,
                [bytes |-> [j \in 1 .. layout.bsatn_length |-> Uninit], oob |-> FALSE],
                bytes)

(***************************************************************************)
(* The row types the layout machine is run on.                             *)
(***************************************************************************)
MaxRowLen == 3

PrimSizes == {1, 2, 4}

Prims == {Prim(s) : s \in PrimSizes}

SmallPrims == {Prim(1), Prim(2)}

VariantTypes ==
    Prims \cup {VarLen, Product(<<>>), Sum(<<>>)}
          \cup {Product(<<a, b>>) : a, b \in SmallPrims}
          \cup {Product(<<Prim(1), Prim(1), Prim(1)>>),
                Product(<<Prim(1), VarLen>>),
                Sum(<<Prim(1), Prim(1)>>),
                Sum(<<Product(<<>>), Product(<<>>)>>)}

SumTypes ==
    {Sum(<<>>)} \cup {Sum(<<a>>) : a \in VariantTypes}
                \cup {Sum(<<a, b>>) : a, b \in VariantTypes}
                \cup {Sum(<<a, a, b>>) : a, b \in Prims}

ComplexTypes ==
    SumTypes \cup {VarLen, Product(<<>>)}
             \cup {Product(<<a, b>>) : a, b \in Prims}
             \cup {Product(<<a, Sum(<<b, b>>)>>) : a, b \in SmallPrims}

ColumnTypes == Prims \cup ComplexTypes

InsertAt(cols, k, c) == SubSeq(cols, 1, k - 1) \o <<c>> \o SubSeq(cols, k, Len(cols))

\* Rows of at most MaxRowLen columns, at most one of them not a primitive.
RowTypes ==
    {Product(cols) : cols \in SeqsUpTo(Prims, MaxRowLen)}
    \cup UNION {{Product(InsertAt(cols, k, c)) : k \in 1 .. Len(cols) + 1, c \in ComplexTypes} :
                 cols \in SeqsUpTo(Prims, MaxRowLen - 1)}

\* Row types with 8- and 16-byte columns: (u64, u64, u32, u64),
\* (Sum{U8, I8, Bool}), (Sum{U128, I128}, u32) and (u32, Sum{U16, I16}, u32).
WideRowTypes ==
    {Product(<<Prim(8), Prim(8), Prim(4), Prim(8)>>),
     Product(<<Sum(<<Prim(1), Prim(1), Prim(1)>>)>>),
     Product(<<Sum(<<Prim(16), Prim(16)>>), Prim(4)>>),
     Product(<<Prim(4), Sum(<<Prim(2), Prim(2)>>), Prim(4)>>)}

NoRow == [init |-> {}, bsatn |-> <<>>]

NoBuf == [bytes |-> <<>>, oob |-> FALSE]

(***************************************************************************)
(* The layout machine: a row type is registered, its static layout is      *)
(* computed once, and rows of the type are serialized through it.          *)
(***************************************************************************)
LayoutStart ==
    /\ lpc = "new"
    /\ row_type \in RowTypes \cup WideRowTypes
    /\ static_layout = NoLayout
    /\ row = NoRow
    /\ buf = NoBuf

LayoutIdle ==
    /\ lpc = "idle"
    /\ row_type = Product(<<>>)
    /\ static_layout = NoLayout
    /\ row = NoRow
    /\ buf = NoBuf

ForRowType ==
    /\ lpc = "new"
    /\ static_layout' = for_row_type(layout_of(row_type))
    /\ lpc' = "built"
    /\ UNCHANGED <<row_type, row, buf>>
    /\ UNCHANGED <<authVars, indexVars, optVars, sourceVars, flattenVars, rewriteVars, compareVars>>

SerializeRow ==
    /\ lpc = "built"
    /\ static_layout.some
    /\ \E r \in row_values(layout_of(row_type), 0) :
          /\ row' = r
          /\ buf' = serialize_row_into(static_layout,
                                       row_bytes(r, layout_of(row_type).size))
    /\ lpc' = "serialized"
    /\ UNCHANGED <<row_type, static_layout>>
    /\ UNCHANGED <<authVars, indexVars, optVars, sourceVars, flattenVars, rewriteVars, compareVars>>

NextLayout == ForRowType \/ SerializeRow


(***************************************************************************)
(* Properties of the static layout.                                        *)
(***************************************************************************)
RECURSIVE SubTypes(_)
\* Every type occurring in ty, ty included.
SubTypes(ty) ==
    {ty} \cup
    CASE ty.kind = "Product" -> UNION {SubTypes(ty.elements[i]) : i \in 1 .. Len(ty.elements)}
      [] ty.kind = "Sum" -> UNION {SubTypes(ty.variants[i]) : i \in 1 .. Len(ty.variants)}
      [] OTHER -> {}

HasVarLen(ty) == \E t \in SubTypes(ty) : t.kind = "VarLen"

HasEmptySum(ty) == \E t \in SubTypes(ty) : t.kind = "Sum" /\ t.variants = <<>>

\* The static layouts of a sum's variants, each computed on its own.
VariantLayouts(t) ==
    {variant_layout([ty |-> layout_of(t.variants[i])]) : i \in 1 .. Len(t.variants)}

HasUnevenSum(ty) ==
    \E t \in SubTypes(ty) :
        /\ t.kind = "Sum"
        /\ \/ NoLayout \in VariantLayouts(t)
           \/ Cardinality(VariantLayouts(t)) > 1

\* The BSATN lengths the values of a type have under the general serializer.
BsatnLengths(ty) == {Len(v.bsatn) : v \in row_values(layout_of(ty), 0)}

HasUnevenPayloadLength(ty) ==
    \E t \in SubTypes(ty) :
        /\ t.kind = "Sum"
        /\ \E i, j \in 1 .. Len(t.variants) :
              BsatnLengths(t.variants[i]) # BsatnLengths(t.variants[j])

HasPaddedSum(ty) ==
    \E t \in SubTypes(ty) : t.kind = "Sum" /\ layout_of(t).payload_offset > 1

\* C1: whenever a row of a type with a static layout has been serialized
\* through the fast path, the buffer equals the row's general BSATN
\* serialization byte for byte, no copy left either slice, and the row's
\* BSATN length is the layout's bsatn_length.
C1_FastPathFidelity ==
    lpc = "serialized" =>
        /\ buf.bytes = row.bsatn
        /\ ~buf.oob
        /\ Len(row.bsatn) = static_layout.bsatn_length

C1_Witness ==
    /\ lpc = "serialized"
    /\ Len(static_layout.fields) >= 2
    /\ HasPaddedSum(row_type)
    /\ buf.bytes = row.bsatn

\* C5: for_row_type returns None whenever the row type contains a var-length
\* leaf anywhere, a sum without variants, or a sum whose variants do not all
\* yield the same static layout (in particular variants of differing BSATN
\* payload lengths).
C5_NotApplicable ==
    (/\ lpc = "built"
     /\ \/ HasVarLen(row_type)
        \/ HasEmptySum(row_type)
        \/ HasUnevenSum(row_type)
        \/ HasUnevenPayloadLength(row_type))
    => ~static_layout.some

C5_Witness ==
    /\ lpc = "built"
    /\ ~HasVarLen(row_type)
    /\ ~HasEmptySum(row_type)
    /\ ~HasUnevenPayloadLength(row_type)
    /\ HasUnevenSum(row_type)
    /\ ~static_layout.some

\* C6: in every static layout returned by for_row_type every copy record has
\* a positive length, source offsets strictly increase, the first
\* destination offset is 0, each later destination offset is the previous
\* one plus the previous length, and bsatn_length is the sum of the lengths.
C6_CopyRecordsWellFormed ==
    (lpc = "built" /\ static_layout.some) =>
        LET fs == static_layout.fields
            n == Len(fs)
        IN /\ \A i \in 1 .. n : fs[i].length > 0
           /\ \A i \in 1 .. n - 1 : fs[i].bflatn_offset < fs[i + 1].bflatn_offset
           /\ n > 0 => fs[1].bsatn_offset = 0
           /\ \A i \in 1 .. n - 1 :
                 fs[i + 1].bsatn_offset = fs[i].bsatn_offset + fs[i].length
           /\ static_layout.bsatn_length = SumSeq([i \in 1 .. n |-> fs[i].length])

C6_Witness ==
    /\ lpc = "built"
    /\ static_layout.some
    /\ Len(static_layout.fields) >= 2
    /\ static_layout.fields[2].bsatn_offset = static_layout.fields[1].length

\* C7: no copy record of a static layout covers a byte that some valid row of
\* the type leaves uninitialized (padding between product elements, padding
\* between a sum's tag and its payload), and every record lies within the
\* row's in-memory size.
C7_NoPaddingCopied ==
    (lpc = "built" /\ static_layout.some) =>
        LET ly == layout_of(row_type)
        IN \A i \in 1 .. Len(static_layout.fields) :
              LET f == static_layout.fields[i]
              IN /\ f.bflatn_offset + f.length <= ly.size
                 /\ \A r \in row_values(ly, 0) :
                       f.bflatn_offset .. f.bflatn_offset + f.length - 1 \subseteq r.init

C7_Witness ==
    /\ lpc = "built"
    /\ static_layout.some
    /\ HasPaddedSum(row_type)
    /\ \E i \in 1 .. Len(static_layout.fields) : static_layout.fields[i].bflatn_offset > 1
    /\ row_values(layout_of(row_type), 0) # {}

\* A static layout: bsatn_length and the copy records as
\* (bflatn_offset, bsatn_offset, length).
expected_layout(bsatn_length, fields) ==
    [some |-> TRUE, bsatn_length |-> bsatn_length,
     fields |-> [i \in 1 .. Len(fields) |->
                    MemcpyField(fields[i][1], fields[i][2], fields[i][3])]]

\* The bytes of the row a copy record reads.
record_bytes(f) == f.bflatn_offset .. f.bflatn_offset + f.length - 1

\* C30: the builder starts a new copy record exactly where padding precedes
\* the next bytes, and otherwise extends the current record: consecutive
\* records are separated by at least one byte, the bytes between them are
\* padding, and the records together cover every byte a row initializes.
\* (u64, u64, u32, u64) yields length 28 with copies [(0,0,20), (24,20,8)],
\* (Sum{U8, I8, Bool}) yields length 2 with [(0,0,2)], and
\* (Sum{U128, I128}, u32) yields length 21 with [(0,0,1), (16,1,20)].
C30_NewRecordAtPadding ==
    /\ (lpc = "built" /\ static_layout.some) =>
           LET fs == static_layout.fields
               n == Len(fs)
           IN  /\ \A i \in 1 .. n - 1 :
                      fs[i].bflatn_offset + fs[i].length < fs[i + 1].bflatn_offset
               /\ \A r \in row_values(layout_of(row_type), 0) :
                      r.init = UNION {record_bytes(fs[i]) : i \in 1 .. n}
    /\ lpc = "built" =>
            /\ row_type = Product(<<Prim(8), Prim(8), Prim(4), Prim(8)>>)
                   => static_layout = expected_layout(28, <<<<0, 0, 20>>, <<24, 20, 8>>>>)
            /\ row_type = Product(<<Sum(<<Prim(1), Prim(1), Prim(1)>>)>>)
                   => static_layout = expected_layout(2, <<<<0, 0, 2>>>>)
            /\ row_type = Product(<<Sum(<<Prim(16), Prim(16)>>), Prim(4)>>)
                   => static_layout = expected_layout(21, <<<<0, 0, 1>>, <<16, 1, 20>>>>)

\* (Sum{U128, I128}, u32): the layout is built, with a new record at the
\* padded payload that the u32 after the sum extends.
C30_Witness ==
    /\ lpc = "built"
    /\ row_type = Product(<<Sum(<<Prim(16), Prim(16)>>), Prim(4)>>)
    /\ static_layout.some
    /\ Len(static_layout.fields) = 2
    /\ static_layout.fields[2].length = 20

(***************************************************************************)
(* The query-plan algebra (expr.rs and the relation types it imports).     *)
(***************************************************************************)
FieldName(t, c) == [table |-> t, col |-> c]

\* A header: the columns, in order, and the constraints as (ColList, indexed).
Header(id, name, fields, constraints) ==
    [table_id |-> id, table_name |-> name, fields |-> fields, constraints |-> constraints]

DbTable(head, access) ==
    [head |-> head, table_id |-> head.table_id, table_access |-> access]

SourceDbTable(t) == [kind |-> "DbTable", db_table |-> t]

SourceInMemory(id, header, access, count) ==
    [kind |-> "InMemory", source_id |-> id, header |-> header,
     table_access |-> access, row_count |-> count]

table_access(src) ==
    IF src.kind = "InMemory" THEN src.table_access ELSE src.db_table.table_access

head(src) == IF src.kind = "InMemory" THEN src.header ELSE src.db_table.head

table_name(src) == head(src).table_name

is_mem_table(src) == src.kind = "InMemory"

QueryExpr(source, query) == [source |-> source, query |-> query]

Select(pred) == [tag |-> "Select", pred |-> pred]

Project(cols, wildcard) == [tag |-> "Project", cols |-> cols, wildcard |-> wildcard]

IndexScan(table, columns, bounds) ==
    [tag |-> "IndexScan", table |-> table, columns |-> columns, bounds |-> bounds]

JoinInner(rhs, col_lhs, col_rhs, semi) ==
    [tag |-> "JoinInner", rhs |-> rhs, col_lhs |-> col_lhs, col_rhs |-> col_rhs,
     semi |-> semi]

IndexJoin(probe_side, probe_field, index_side, index_select, index_col, return_index_rows) ==
    [tag |-> "IndexJoin", probe_side |-> probe_side, probe_field |-> probe_field,
     index_side |-> index_side, index_select |-> index_select,
     index_col |-> index_col, return_index_rows |-> return_index_rows]

RECURSIVE sources(_), query_sources(_), ops_sources(_, _)
\* Query::sources: the sources an operator yields, left to right.  An index
\* join yields the sources of its probe side only.
query_sources(q) ==
    CASE q.tag \in {"Select", "Project"} -> <<>>
      [] q.tag = "IndexScan" -> <<SourceDbTable(q.table)>>
      [] q.tag = "IndexJoin" -> sources(q.probe_side)
      [] q.tag = "JoinInner" -> sources(q.rhs)

ops_sources(query, i) ==
    IF i > Len(query) THEN <<>>
    ELSE query_sources(query[i]) \o ops_sources(query, i + 1)

\* QueryExpr::sources: the plan source, then the sources of each operator.
sources(expr) == <<expr.source>> \o ops_sources(expr.query, 1)

(***************************************************************************)
(* The access gate: impl AuthAccess for SourceExpr, Query, QueryExpr and   *)
(* CrudExpr.                                                               *)
(***************************************************************************)
AuthOk == [ok |-> TRUE, err |-> "None", named |-> "None"]

TablePrivate(name) == [ok |-> FALSE, err |-> "TablePrivate", named |-> name]

OwnerRequired == [ok |-> FALSE, err |-> "OwnerRequired", named |-> "None"]

check_auth_source(src, o, c) ==
    IF o = c \/ table_access(src) = "Public" THEN AuthOk
    ELSE TablePrivate(table_name(src))

RECURSIVE first_private(_, _)
\* The loop of Query::check_auth: the first Private source ends it.
first_private(srcs, i) ==
    IF i > Len(srcs) THEN AuthOk
    ELSE IF table_access(srcs[i]) = "Private" THEN TablePrivate(table_name(srcs[i]))
    ELSE first_private(srcs, i + 1)

check_auth_query(q, o, c) ==
    IF o = c THEN AuthOk ELSE first_private(query_sources(q), 1)

RECURSIVE check_auth_ops(_, _, _, _)
check_auth_ops(query, i, o, c) ==
    IF i > Len(query) THEN AuthOk
    ELSE LET r == check_auth_query(query[i], o, c)
         IN  IF r.ok THEN check_auth_ops(query, i + 1, o, c) ELSE r

check_auth_query_expr(expr, o, c) ==
    IF o = c THEN AuthOk
    ELSE LET r == check_auth_source(expr.source, o, c)
         IN  IF r.ok THEN check_auth_ops(expr.query, 1, o, c) ELSE r

\* A gate that admits every mutation.
check_auth_admit_mutations(crud, o, c) ==
    IF o = c THEN AuthOk
    ELSE IF crud.tag = "Query" THEN check_auth_query_expr(crud.query, o, c)
    ELSE AuthOk

check_auth(crud, o, c) ==
    IF o = c THEN AuthOk
    ELSE IF crud.tag = "Query" THEN check_auth_query_expr(crud.query, o, c)
    ELSE OwnerRequired

(***************************************************************************)
(* The plans, owners and callers the access gate is run on.                *)
(***************************************************************************)
MaxAuthOps == 2

ALICE == "alice"

BOB == "bob"

Identities == {ALICE, BOB}

StAccess == {"Public", "Private"}

\* One table per access level, as in the tests' tables().
AuthHeader(access) ==
    IF access = "Public" THEN Header(1, "pub", <<>>, <<>>)
    ELSE Header(2, "priv", <<>>, <<>>)

AuthDbTables == {DbTable(AuthHeader(a), a) : a \in StAccess}

AuthSources ==
    {SourceDbTable(t) : t \in AuthDbTables}
        \cup {SourceInMemory(0, AuthHeader("Private"), "Private", 0)}

NoPred == [tag |-> "None"]

NoBounds == <<[kind |-> "Unbounded"], [kind |-> "Unbounded"]>>

\* Option<TableId>::None
NoTable == 0 - 1

AuthIndexScans == {IndexScan(t, <<0>>, NoBounds) : t \in AuthDbTables}

\* Operators that hold no plan of their own.
AuthLeafOps == {Select(NoPred), Project(<<>>, NoTable)} \cup AuthIndexScans

\* The plans nested in a join: a source and at most one operator.
AuthNestedExprs ==
    {QueryExpr(s, ops) : s \in AuthSources,
                         ops \in {<<>>, <<Select(NoPred)>>} \cup {<<q>> : q \in AuthIndexScans}}

AuthJoinOps ==
    {JoinInner(e, FieldName(1, 0), FieldName(2, 0), FALSE) : e \in AuthNestedExprs}
        \cup {IndexJoin(e, FieldName(1, 0), s, NoPred, 0, FALSE) :
                 e \in AuthNestedExprs, s \in AuthSources}

AuthOps == AuthLeafOps \cup AuthJoinOps

AuthQueryExprs ==
    {QueryExpr(s, ops) : s \in AuthSources, ops \in SeqsUpTo(AuthOps, MaxAuthOps)}

CrudQuery(q) == [tag |-> "Query", query |-> q]

CrudInsert(t) == [tag |-> "Insert", table |-> t]

CrudUpdate(q) == [tag |-> "Update", delete |-> q]

CrudDelete(q) == [tag |-> "Delete", query |-> q]

CrudCreateTable(access) == [tag |-> "CreateTable", table_access |-> access]

CrudDrop(access) == [tag |-> "Drop", table_access |-> access]

CrudSetVar == [tag |-> "SetVar"]

CrudReadVar == [tag |-> "ReadVar"]

AuthCrudExprs ==
    {CrudQuery(q) : q \in AuthQueryExprs}
        \cup {CrudInsert(t) : t \in AuthDbTables}
        \cup {CrudUpdate(q) : q \in AuthNestedExprs}
        \cup {CrudDelete(q) : q \in AuthNestedExprs}
        \cup {CrudCreateTable(a) : a \in StAccess}
        \cup {CrudDrop(a) : a \in StAccess}
        \cup {CrudSetVar, CrudReadVar}

NoCrud == [tag |-> "None"]

AuthStart ==
    /\ apc = "new"
    /\ auth_expr \in AuthCrudExprs
    /\ owner = ALICE
    /\ caller \in Identities
    /\ auth_result = AuthOk

AuthIdle ==
    /\ apc = "idle"
    /\ auth_expr = NoCrud
    /\ owner = ALICE
    /\ caller = ALICE
    /\ auth_result = AuthOk

CheckAuth ==
    /\ apc = "new"
    /\ auth_result' = check_auth(auth_expr, owner, caller)
    /\ apc' = "checked"
    /\ UNCHANGED <<auth_expr, owner, caller>>
    /\ UNCHANGED <<layoutVars, indexVars, optVars, sourceVars, flattenVars, rewriteVars, compareVars>>

NextAuth == CheckAuth

(***************************************************************************)
(* Properties of the access gate.                                          *)
(***************************************************************************)
RECURSIVE referenced(_), query_referenced(_)
\* Every table a plan references: its source, each index scan's table, the
\* plan of each inner join's rhs, both sides of each index join.
query_referenced(q) ==
    CASE q.tag \in {"Select", "Project"} -> {}
      [] q.tag = "IndexScan" -> {SourceDbTable(q.table)}
      [] q.tag = "IndexJoin" -> {q.index_side} \cup referenced(q.probe_side)
      [] q.tag = "JoinInner" -> referenced(q.rhs)

referenced(expr) ==
    {expr.source} \cup UNION {query_referenced(expr.query[i]) : i \in 1 .. Len(expr.query)}

ReferencesPrivate(expr) == \E s \in referenced(expr) : table_access(s) = "Private"

\* C2: check_auth admits no plan that references a Private table anywhere
\* (index side of an index join included) when caller # owner: the result is
\* Err(TablePrivate); when caller = owner the result is Ok for every plan.
C2_NoPrivatePlanAdmitted ==
    (apc = "checked" /\ auth_expr.tag = "Query") =>
        /\ caller = owner => auth_result = AuthOk
        /\ (caller # owner /\ ReferencesPrivate(auth_expr.query)) =>
               auth_result.err = "TablePrivate"

\* The plan the gate wrongly admits: a Public source probing a Private index side.
C2_Witness ==
    /\ apc = "checked"
    /\ auth_expr.tag = "Query"
    /\ caller # owner
    /\ ReferencesPrivate(auth_expr.query)
    /\ auth_result = AuthOk

\* C8: a CrudExpr that is not a Query (Insert, Update, Delete, CreateTable,
\* Drop, SetVar) is admitted exactly when caller = owner and fails with
\* OwnerRequired otherwise, whatever the access of its tables.
C8_MutationsRequireOwner ==
    (apc = "checked"
       /\ auth_expr.tag \in {"Insert", "Update", "Delete", "CreateTable", "Drop", "SetVar"}) =>
        /\ caller = owner => auth_result = AuthOk
        /\ caller # owner => auth_result = OwnerRequired

C8_Witness ==
    /\ apc = "checked"
    /\ auth_expr.tag = "Update"
    /\ table_access(auth_expr.delete.source) = "Public"
    /\ ~ReferencesPrivate(auth_expr.delete)
    /\ caller # owner
    /\ auth_result = OwnerRequired

(***************************************************************************)
(* Values and predicates (ColumnOp, expr.rs).                              *)
(***************************************************************************)
IntValue(n) == [int |-> n]

BoolValue(b) == [bool |-> b]

\* AlgebraicValue::product: the key of a multi-column index.
ProductValue(elems) == [product |-> elems]

is_int(v) == "int" \in DOMAIN v

is_product(v) == "product" \in DOMAIN v

as_bool(v) == "bool" \in DOMAIN v

RECURSIVE product_cmp(_, _, _)
\* The order of two product values: lexicographic in their elements.
product_cmp(xs, ys, i) ==
    IF i > Len(xs) /\ i > Len(ys) THEN 0
    ELSE IF i > Len(xs) THEN 0 - 1
    ELSE IF i > Len(ys) THEN 1
    ELSE IF xs[i].int < ys[i].int THEN 0 - 1
    ELSE IF xs[i].int > ys[i].int THEN 1
    ELSE product_cmp(xs, ys, i + 1)

\* Ord for AlgebraicValue: -1, 0 or 1.
value_cmp(a, b) ==
    IF is_int(a) /\ is_int(b)
    THEN (IF a.int < b.int THEN 0 - 1 ELSE IF a.int > b.int THEN 1 ELSE 0)
    ELSE IF is_product(a) /\ is_product(b) THEN product_cmp(a.product, b.product, 1)
    ELSE IF as_bool(a) /\ as_bool(b)
    THEN (IF a.bool = b.bool THEN 0 ELSE IF b.bool THEN 0 - 1 ELSE 1)
    ELSE IF as_bool(a) \/ (is_int(a) /\ is_product(b)) THEN 0 - 1 ELSE 1

FieldExprName(name) == [kind |-> "Name", name |-> name]

FieldExprValue(value) == [kind |-> "Value", value |-> value]

Field(field) == [tag |-> "Field", field |-> field]

Cmp(op, lhs, rhs) == [tag |-> "Cmp", op |-> op, lhs |-> lhs, rhs |-> rhs]

OpCmp == {"Eq", "NotEq", "Lt", "LtEq", "Gt", "GtEq"}

OpLogic == {"And", "Or"}

\* ColumnOp::cmp
cmp(field, op, value) == Cmp(op, Field(FieldExprName(field)), Field(FieldExprValue(value)))

\* ColumnOp::and
and(lhs, rhs) == Cmp("And", lhs, rhs)

NoCol == 0 - 1

RECURSIVE index_of(_, _, _)
index_of(fields, name, i) ==
    IF i > Len(fields) THEN NoCol
    ELSE IF fields[i] = name THEN i - 1
    ELSE index_of(fields, name, i + 1)

\* Header::column_pos: the ColId of a field, or NoCol.
column_pos(header, name) == index_of(header.fields, name, 1)

EvalOk(v) == [status |-> "Ok", val |-> v]

EvalErr == [status |-> "Err"]

EvalPanic == [status |-> "Panic"]

\* RelValue::get: a literal is itself, a name is the row's column.
get(row_, field, header) ==
    IF field.kind = "Value" THEN EvalOk(field.value)
    ELSE IF column_pos(header, field.name) = NoCol THEN EvalErr
    ELSE EvalOk(row_[column_pos(header, field.name) + 1])

RECURSIVE reduce(_, _, _), reduce_bool(_, _, _), compare_bin_op(_, _, _, _, _)
reduce(row_, value, header) ==
    IF value.tag = "Field" THEN get(row_, value.field, header)
    ELSE LET r == compare_bin_op(row_, value.op, value.lhs, value.rhs, header)
         IN  IF r.status = "Ok" THEN EvalOk(BoolValue(r.val)) ELSE r

reduce_bool(row_, value, header) ==
    IF value.tag = "Field"
    THEN LET f == get(row_, value.field, header)
         IN  IF f.status # "Ok" THEN f
             ELSE IF as_bool(f.val) THEN EvalOk(f.val.bool)
             ELSE EvalErr
    ELSE compare_bin_op(row_, value.op, value.lhs, value.rhs, header)

\* Both operands are reduced, the left one first, before the operator is applied.
compare_bin_op(row_, op, lhs, rhs, header) ==
    IF op \in OpCmp
    THEN LET l == reduce(row_, lhs, header)
         IN  IF l.status # "Ok" THEN l
             ELSE LET r == reduce(row_, rhs, header)
                  IN  IF r.status # "Ok" THEN r
                      ELSE LET c == value_cmp(l.val, r.val)
                           IN  EvalOk(CASE op = "Eq" -> c = 0
                                        [] op = "NotEq" -> c # 0
                                        [] op = "Lt" -> c < 0
                                        [] op = "LtEq" -> c <= 0
                                        [] op = "Gt" -> c > 0
                                        [] op = "GtEq" -> c >= 0)
    ELSE LET l == reduce_bool(row_, lhs, header)
         IN  IF l.status # "Ok" THEN l
             ELSE LET r == reduce_bool(row_, rhs, header)
                  IN  IF r.status # "Ok" THEN r
                      ELSE EvalOk(IF op = "And" THEN l.val /\ r.val ELSE l.val \/ r.val)

\* ColumnOp::compare: the outcome is a boolean, an error, or a panic when a
\* bare field is not a bool.
compare(op, row_, header) ==
    IF op.tag = "Field"
    THEN LET f == get(row_, op.field, header)
         IN  IF f.status # "Ok" THEN f
             ELSE IF as_bool(f.val) THEN EvalOk(f.val.bool)
             ELSE EvalPanic
    ELSE compare_bin_op(row_, op.op, op.lhs, op.rhs, header)

\* The key of a row over a column list: the column itself for one column,
\* a product of the columns otherwise.
project_key(row_, columns) ==
    IF Len(columns) = 1 THEN row_[columns[1] + 1]
    ELSE ProductValue([i \in 1 .. Len(columns) |-> row_[columns[i] + 1]])

\* A walk that opens the top AND only.
fill_vec_top(op) ==
    IF op.tag = "Cmp" /\ op.op = "And" THEN <<op.lhs, op.rhs>> ELSE <<op>>

RECURSIVE fill_vec(_)
\* ColumnOp::flatten_ands
fill_vec(op) ==
    IF op.tag = "Cmp" /\ op.op = "And" THEN fill_vec(op.lhs) \o fill_vec(op.rhs)
    ELSE <<op>>

flatten_ands(op) == fill_vec(op)

RECURSIVE fill_vec_ref(_)
\* ColumnOp::flatten_ands_ref: the same walk over borrowed nodes; a reference
\* is modelled by the node it refers to.
fill_vec_ref(op) ==
    IF op.tag = "Cmp" /\ op.op = "And" THEN fill_vec_ref(op.lhs) \o fill_vec_ref(op.rhs)
    ELSE <<op>>

flatten_ands_ref(op) == fill_vec_ref(op)

RECURSIVE and_all(_)
\* Iterator::reduce(ColumnOp::and) over a non-empty list: a left fold.
and_all(ops) ==
    IF Len(ops) = 1 THEN ops[1]
    ELSE and(and_all(SubSeq(ops, 1, Len(ops) - 1)), ops[Len(ops)])

(***************************************************************************)
(* Index selection (select_best_index and its helpers, expr.rs).           *)
(***************************************************************************)
IndexEq(columns, value) == [kind |-> "Eq", columns |-> columns, value |-> value]

IndexLowerBound(columns, value, inclusive) ==
    [kind |-> "LowerBound", columns |-> columns, value |-> value, inclusive |-> inclusive]

IndexUpperBound(columns, value, inclusive) ==
    [kind |-> "UpperBound", columns |-> columns, value |-> value, inclusive |-> inclusive]

Index(arg) == [tag |-> "Index", arg |-> arg]

Scan(op) == [tag |-> "Scan", op |-> op]

make_index_arg(c, columns, value) ==
    Index(CASE c = "Eq" -> IndexEq(columns, value)
            [] c = "Lt" -> IndexUpperBound(columns, value, FALSE)
            [] c = "Gt" -> IndexLowerBound(columns, value, FALSE)
            [] c = "LtEq" -> IndexUpperBound(columns, value, TRUE)
            [] c = "GtEq" -> IndexLowerBound(columns, value, TRUE))

FieldValue(parent, c, field, value) ==
    [parent |-> parent, cmp |-> c, field |-> field, value |-> value]

NoFieldVal == [some |-> FALSE]

ext_field_val(header, lhs, rhs) ==
    IF /\ lhs.tag = "Field"
       /\ lhs.field.kind = "Name"
       /\ rhs.tag = "Field"
       /\ rhs.field.kind = "Value"
       /\ column_pos(header, lhs.field.name) # NoCol
    THEN [some |-> TRUE, col |-> column_pos(header, lhs.field.name),
          field |-> lhs.field.name, value |-> rhs.field.value]
    ELSE NoFieldVal

ext_cmp_field_val(header, op) ==
    IF op.tag = "Cmp" /\ op.op \in OpCmp THEN ext_field_val(header, op.lhs, op.rhs)
    ELSE NoFieldVal

\* The order of OpCmp, which orders the keys (ColId, OpCmp) of the fields map.
OpCmpOrder == <<"Eq", "NotEq", "Lt", "LtEq", "Gt", "GtEq">>

\* The fields map, (col, cmp) -> [FieldValue]; an absent key holds no fields.
EmptyFieldsMap(header) ==
    [k \in (0 .. Len(header.fields) - 1) \X OpCmp |-> <<>>]

\* add_field filing a NotEq constraint among the Eq ones.
add_field_neq_as_eq(fields_map, parent, op, field_col, field, val) ==
    LET filed == IF op = "NotEq" THEN "Eq" ELSE op
    IN  [fields_map EXCEPT ![<<field_col, filed>>] =
             Append(@, FieldValue(parent, filed, field, val))]

add_field(fields_map, parent, op, field_col, field, val) ==
    [fields_map EXCEPT ![<<field_col, op>>] = Append(@, FieldValue(parent, op, field, val))]

RECURSIVE extract_fields(_, _, _, _)
\* st = [fields_map, found]
extract_fields(ops, i, header, st) ==
    IF i > Len(ops) THEN st
    ELSE
      LET op == ops[i]
          direct == IF op.tag = "Cmp" /\ op.op \in OpCmp
                    THEN ext_field_val(header, op.lhs, op.rhs) ELSE NoFieldVal
          l == IF op.tag = "Cmp" /\ op.op = "And"
               THEN ext_cmp_field_val(header, op.lhs) ELSE NoFieldVal
          r == IF op.tag = "Cmp" /\ op.op = "And"
               THEN ext_cmp_field_val(header, op.rhs) ELSE NoFieldVal
      IN  IF direct.some
          THEN extract_fields(ops, i + 1, header,
                   [st EXCEPT !.fields_map =
                       add_field(@, op, op.op, direct.col, direct.field, direct.value)])
          ELSE IF l.some /\ r.some
          THEN extract_fields(ops, i + 1, header,
                   [st EXCEPT !.fields_map =
                       add_field(add_field(@, op, op.lhs.op, l.col, l.field, l.value),
                                 op, op.rhs.op, r.col, r.field, r.value)])
          ELSE extract_fields(ops, i + 1, header,
                   [st EXCEPT !.found = Append(@, Scan(op))])

\* The indices in their declared order.
declared_order(indices, n) == indices

RECURSIVE longest_first(_, _)
\* indices.sort_unstable_by_key(|cl| Reverse(cl.len())), indices of one
\* length kept in their declared order.
longest_first(indices, n) ==
    IF n = 0 THEN <<>>
    ELSE SelectSeq(indices, LAMBDA cl : Len(cl) = n) \o longest_first(indices, n - 1)

RECURSIVE indexed_constraints(_, _)
indexed_constraints(constraints, i) ==
    IF i > Len(constraints) THEN <<>>
    ELSE (IF constraints[i].indexed THEN <<constraints[i].cols>> ELSE <<>>)
             \o indexed_constraints(constraints, i + 1)

sorted_indices(header) ==
    LET indices == indexed_constraints(header.constraints, 1)
    IN  longest_first(indices, Max({0} \cup {Len(indices[i]) : i \in 1 .. Len(indices)}))

is_empty_map(fields_map) == \A k \in DOMAIN fields_map : fields_map[k] = <<>>

RECURSIVE drain_single(_, _, _, _)
\* A single-column index takes every field of its (col, cmp) key.
drain_single(fvs, i, col_list, st) ==
    IF i > Len(fvs) THEN st
    ELSE drain_single(fvs, i + 1, col_list,
             [st EXCEPT !.found = Append(@, make_index_arg(fvs[i].cmp, col_list, fvs[i].value)),
                        !.fields_indexed = @ \cup {<<fvs[i].field, fvs[i].cmp>>}])

RECURSIVE pop_each_newest_first(_, _, _, _, _)
\* pop_each packing the literals in the order they were popped, newest first.
pop_each_newest_first(col_list, i, c, st, elems) ==
    IF i > Len(col_list)
    THEN [st EXCEPT !.found = Append(@, make_index_arg(c, col_list, ProductValue(elems)))]
    ELSE LET fields == st.fields_map[<<col_list[i], c>>]
             field == fields[Len(fields)]
         IN  pop_each_newest_first(col_list, i + 1, c,
                 [st EXCEPT !.fields_map[<<col_list[i], c>>] = SubSeq(fields, 1, Len(fields) - 1),
                            !.fields_indexed = @ \cup {<<field.field, c>>}],
                 <<field.value>> \o elems)

RECURSIVE pop_each(_, _, _, _, _)
\* A multi-column index pops the last field of each of its columns.
\* st = [fields_map, found, fields_indexed], elems the values popped so far.
pop_each(col_list, i, c, st, elems) ==
    IF i > Len(col_list)
    THEN [st EXCEPT !.found = Append(@, make_index_arg(c, col_list, ProductValue(elems)))]
    ELSE LET fields == st.fields_map[<<col_list[i], c>>]
             field == fields[Len(fields)]
         IN  pop_each(col_list, i + 1, c,
                 [st EXCEPT !.fields_map[<<col_list[i], c>>] = SubSeq(fields, 1, Len(fields) - 1),
                            !.fields_indexed = @ \cup {<<field.field, c>>}],
                 Append(elems, field.value))

\* The comparison, all columns or none, that lets a multi-column index serve.
every_col_has_field(col_list, c, fields_map) ==
    \A i \in 1 .. Len(col_list) :
        /\ <<col_list[i], c>> \in DOMAIN fields_map
        /\ fields_map[<<col_list[i], c>>] # <<>>

\* One round of the loop over (index, cmp).
serve_index(col_list, c, st) ==
    IF is_empty_map(st.fields_map) THEN st
    ELSE IF Len(col_list) = 1
    THEN IF <<col_list[1], c>> \in DOMAIN st.fields_map
         THEN drain_single(st.fields_map[<<col_list[1], c>>], 1, col_list,
                           [st EXCEPT !.fields_map[<<col_list[1], c>>] = <<>>])
         ELSE st
    ELSE IF every_col_has_field(col_list, c, st.fields_map)
    THEN pop_each(col_list, 1, c, st, <<>>)
    ELSE st

RECURSIVE serve_indices(_, _, _, _)
serve_indices(indices, i, c, st) ==
    IF i > Len(indices) THEN st
    ELSE Bind(serve_index(indices[i], c, st),
              LAMBDA next : serve_indices(indices, i + 1, c, next))

RECURSIVE serve_cmps(_, _, _, _)
serve_cmps(cmps, j, indices, st) ==
    IF j > Len(cmps) THEN st
    ELSE Bind(serve_indices(indices, 1, cmps[j], st),
              LAMBDA next : serve_cmps(cmps, j + 1, indices, next))

RECURSIVE scans_of(_, _)
scans_of(fvs, i) ==
    IF i > Len(fvs) THEN <<>> ELSE <<Scan(fvs[i].parent)>> \o scans_of(fvs, i + 1)

RECURSIVE remaining_scans(_, _, _, _)
\* The fields no index served, in the order of the map's keys.
remaining_scans(fields_map, header, col, j) ==
    IF col > Len(header.fields) - 1 THEN <<>>
    ELSE IF j > Len(OpCmpOrder) THEN remaining_scans(fields_map, header, col + 1, 1)
    ELSE scans_of(fields_map[<<col, OpCmpOrder[j]>>], 1)
             \o remaining_scans(fields_map, header, col, j + 1)

\* select_best_index: the ops found and the (field, cmp) pairs an index serves.
select_best_index(fields_indexed, header, ops) ==
    Bind(extract_fields(ops, 1, header,
                        [fields_map |-> EmptyFieldsMap(header), found |-> <<>>]),
         LAMBDA extracted :
             Bind(serve_cmps(<<"Eq", "Lt", "LtEq", "Gt", "GtEq">>, 1, sorted_indices(header),
                             [fields_map |-> extracted.fields_map, found |-> extracted.found,
                              fields_indexed |-> fields_indexed]),
                  LAMBDA served :
                      [found |-> served.found
                                     \o remaining_scans(served.fields_map, header, 0, 1),
                       fields_indexed |-> served.fields_indexed]))

find_sargable_ops(fields_indexed, header, op) ==
    LET ops_flat == flatten_ands(op)
    IN  IF Len(ops_flat) = 1 /\ ops_flat[1].tag = "Field"
        THEN [found |-> <<Scan(ops_flat[1])>>, fields_indexed |-> fields_indexed]
        ELSE select_best_index(fields_indexed, header, ops_flat)

(***************************************************************************)
(* The headers and conjunctions index selection is run on.                 *)
(***************************************************************************)
MaxConjuncts == 2

IdxField(c) == FieldName(1, c)

Indexed(cols) == [cols |-> cols, indexed |-> TRUE]

Unindexed(cols) == [cols |-> cols, indexed |-> FALSE]

\* A table t1(a, b, c) under several sets of declared indexes.
IdxHeader(constraints) ==
    Header(1, "t1", <<IdxField(0), IdxField(1), IdxField(2)>>, constraints)

IdxHeaders ==
    {IdxHeader(cs) : cs \in {<<>>,
                             <<Indexed(<<0>>), Unindexed(<<1>>)>>,
                             <<Indexed(<<0>>), Indexed(<<1>>), Indexed(<<1, 2>>)>>,
                             <<Indexed(<<0, 1>>)>>}}

IdxLiterals == {IntValue(1), IntValue(2)}

\* field cmp literal, over the columns of t1; column c is compared with one
\* literal only.
IdxAtoms ==
    {cmp(IdxField(c), o, v) : c \in 0 .. 1, o \in OpCmp, v \in IdxLiterals}
        \cup {cmp(IdxField(2), o, IntValue(1)) : o \in OpCmp}

\* Nodes of other shapes: a column of another table, an OR, an AND of two
\* atoms, a bare literal.
IdxOtherNodes ==
    {cmp(FieldName(2, 0), "Eq", IntValue(1)),
     Cmp("Or", cmp(IdxField(0), "Eq", IntValue(1)), cmp(IdxField(1), "Eq", IntValue(2))),
     and(cmp(IdxField(0), "Lt", IntValue(2)), cmp(IdxField(2), "Gt", IntValue(1))),
     Field(FieldExprValue(BoolValue(TRUE)))}

IdxNodes == IdxAtoms \cup IdxOtherNodes

\* The rows of a table the emitted ops are compared on.
IdxRows(header) == [1 .. Len(header.fields) -> {IntValue(x) : x \in 0 .. 3}]

\* t1(a, b, c, d) with the indexes [a], [b] and [b, c], and the conjunction
\* a = 1 AND d > 2 AND c = 2 AND b = 1 with its conjuncts in any order.
BestIndexHeader ==
    Header(1, "t1", <<IdxField(0), IdxField(1), IdxField(2), IdxField(3)>>,
           <<Indexed(<<0>>), Indexed(<<1>>), Indexed(<<1, 2>>)>>)

BestIndexConjuncts ==
    <<cmp(IdxField(0), "Eq", IntValue(1)), cmp(IdxField(3), "Gt", IntValue(2)),
      cmp(IdxField(2), "Eq", IntValue(2)), cmp(IdxField(1), "Eq", IntValue(1))>>

BestIndexOps ==
    {[i \in 1 .. 4 |-> BestIndexConjuncts[p[i]]] :
        p \in {q \in [1 .. 4 -> 1 .. 4] : \A i, j \in 1 .. 4 : q[i] = q[j] => i = j}}

\* Three conjuncts over the columns of the index [a, b], so that a column can
\* carry more constraints than the index takes.
PairIndexAtoms ==
    {cmp(IdxField(c), o, v) : c \in 0 .. 1, o \in {"Eq", "Lt"}, v \in IdxLiterals}

NoHeader == Header(0, "none", <<>>, <<>>)

IndexStart ==
    /\ ipc = "new"
    /\ \/ /\ idx_header \in IdxHeaders
          /\ idx_ops \in SeqsUpTo(IdxNodes, MaxConjuncts)
       \/ /\ idx_header = BestIndexHeader
          /\ idx_ops \in BestIndexOps
       \/ /\ idx_header = IdxHeader(<<Indexed(<<0, 1>>)>>)
          /\ idx_ops \in [1 .. 3 -> PairIndexAtoms]
    /\ idx_found = <<>>
    /\ idx_fields_indexed = {}

IndexIdle ==
    /\ ipc = "idle"
    /\ idx_header = NoHeader
    /\ idx_ops = <<>>
    /\ idx_found = <<>>
    /\ idx_fields_indexed = {}

SelectBestIndex ==
    /\ ipc = "new"
    /\ LET r == select_best_index({}, idx_header, idx_ops)
       IN  /\ idx_found' = r.found
           /\ idx_fields_indexed' = r.fields_indexed
    /\ ipc' = "selected"
    /\ UNCHANGED <<idx_header, idx_ops>>
    /\ UNCHANGED <<layoutVars, authVars, optVars, sourceVars, flattenVars, rewriteVars, compareVars>>

NextIndex == SelectBestIndex

(***************************************************************************)
(* Properties of index selection.                                          *)
(***************************************************************************)
\* Range membership of a row's key in an index argument.
in_index_arg(arg, row_) ==
    LET c == value_cmp(project_key(row_, arg.columns), arg.value)
    IN  CASE arg.kind = "Eq" -> c = 0
          [] arg.kind = "LowerBound" -> IF arg.inclusive THEN c >= 0 ELSE c > 0
          [] arg.kind = "UpperBound" -> IF arg.inclusive THEN c <= 0 ELSE c < 0

satisfies(op, row_, header) == compare(op, row_, header) = EvalOk(TRUE)

satisfies_found(f, row_, header) ==
    IF f.tag = "Index" THEN in_index_arg(f.arg, row_) ELSE satisfies(f.op, row_, header)

\* C4: a row satisfies the conjunction given to index selection exactly when
\* it lies in the range of every emitted index op (composite keys included)
\* and satisfies every emitted Scan predicate.
C4_IndexSelectionEquivalence ==
    ipc = "selected" =>
        \A r \in IdxRows(idx_header) :
            (\A i \in 1 .. Len(idx_ops) : satisfies(idx_ops[i], r, idx_header))
                <=> (\A j \in 1 .. Len(idx_found) : satisfies_found(idx_found[j], r, idx_header))

\* Index [a, b], conjunction a < 2 AND b < 1: one composite upper bound is
\* emitted, and the row (0, 3, 0) lies below it but fails b < 1.
C4_Witness ==
    /\ ipc = "selected"
    /\ idx_header = IdxHeader(<<Indexed(<<0, 1>>)>>)
    /\ idx_ops = <<cmp(IdxField(0), "Lt", IntValue(2)), cmp(IdxField(1), "Lt", IntValue(1))>>
    /\ idx_found = <<Index(IndexUpperBound(<<0, 1>>,
                               ProductValue(<<IntValue(2), IntValue(1)>>), FALSE))>>
    /\ satisfies_found(idx_found[1], <<IntValue(0), IntValue(3), IntValue(0)>>, idx_header)
    /\ ~satisfies(idx_ops[2], <<IntValue(0), IntValue(3), IntValue(0)>>, idx_header)

occurrences(list, x) == {i \in 1 .. Len(list) : list[i] = x}

\* A conjunct index selection must leave to a scan: field # literal, or an OR.
is_not_eq(op) == op.tag = "Cmp" /\ op.op = "NotEq"

is_or(op) == op.tag = "Cmp" /\ op.op = "Or"

\* The (field, cmp) pairs the conjuncts offer to an index: those of the
\* field cmp literal conjuncts other than #, and of the children of an AND.
offered_pairs(ops) ==
    LET atoms == {ops[i] : i \in 1 .. Len(ops)}
                     \cup UNION {{ops[i].lhs, ops[i].rhs} : i \in {k \in 1 .. Len(ops) : ops[k].tag = "Cmp" /\ ops[k].op = "And"}}
    IN  {<<a.lhs.field.name, a.op>> :
            a \in {b \in atoms : /\ b.tag = "Cmp"
                                 /\ b.op \in OpCmp \ {"NotEq"}
                                 /\ b.lhs.tag = "Field"
                                 /\ b.lhs.field.kind = "Name"}}

\* C26: index selection emits no index op for a field # literal conjunct
\* nor for an OR conjunct: each is emitted as one Scan of the node itself,
\* whatever indexes the column has, and the consumed (field, cmp) set holds
\* no # pair and only pairs of the other field cmp literal conjuncts.
C26_NotEqAndOrAreScanned ==
    ipc = "selected" =>
        /\ \A i \in 1 .. Len(idx_ops) :
               (is_not_eq(idx_ops[i]) \/ is_or(idx_ops[i])) =>
                   Cardinality(occurrences(idx_found, Scan(idx_ops[i])))
                       = Cardinality(occurrences(idx_ops, idx_ops[i]))
        /\ \A p \in idx_fields_indexed : p[2] # "NotEq"
        /\ idx_fields_indexed \subseteq offered_pairs(idx_ops)
        /\ Cardinality({j \in 1 .. Len(idx_found) : idx_found[j].tag = "Index"})
               <= Cardinality({i \in 1 .. Len(idx_ops) :
                                  ~ is_not_eq(idx_ops[i]) /\ ~ is_or(idx_ops[i])})

\* a # literal on the indexed column a, next to an OR, both left to scans.
C26_Witness ==
    /\ ipc = "selected"
    /\ Len(idx_ops) = 2
    /\ is_not_eq(idx_ops[1])
    /\ column_pos(idx_header, idx_ops[1].lhs.field.name) = 0
    /\ \E k \in 1 .. Len(idx_header.constraints) :
           idx_header.constraints[k] = Indexed(<<0>>)
    /\ is_or(idx_ops[2])
    /\ occurrences(idx_found, Scan(idx_ops[1])) # {}
    /\ occurrences(idx_found, Scan(idx_ops[2])) # {}
    /\ idx_fields_indexed = {}

\* A field cmp literal node on a column of the header.
is_constraint(header, op) ==
    /\ op.tag = "Cmp"
    /\ op.op \in OpCmp
    /\ op.lhs.tag = "Field"
    /\ op.lhs.field.kind = "Name"
    /\ op.rhs.tag = "Field"
    /\ op.rhs.field.kind = "Value"
    /\ column_pos(header, op.lhs.field.name) # NoCol

\* The constraints a conjunct offers: itself, or both children of an AND of
\* two constraints.
constraints_of(header, op) ==
    IF is_constraint(header, op) THEN <<op>>
    ELSE IF /\ op.tag = "Cmp"
            /\ op.op = "And"
            /\ is_constraint(header, op.lhs)
            /\ is_constraint(header, op.rhs)
    THEN <<op.lhs, op.rhs>>
    ELSE <<>>

RECURSIVE all_constraints(_, _, _)
all_constraints(header, ops, i) ==
    IF i > Len(ops) THEN <<>>
    ELSE constraints_of(header, ops[i]) \o all_constraints(header, ops, i + 1)

\* The literals the conjuncts compare column col with under operator c, in
\* the order of the conjuncts.
pending_literals(header, ops, col, c) ==
    LET all == all_constraints(header, ops, 1)
        at == {i \in 1 .. Len(all) :
                  all[i].op = c /\ column_pos(header, all[i].lhs.field.name) = col}
        RECURSIVE pick(_)
        pick(i) == IF i > Len(all) THEN <<>>
                   ELSE (IF i \in at THEN <<all[i].rhs.field.value>> ELSE <<>>) \o pick(i + 1)
    IN  pick(1)

\* The multi-column indexes of a header.
multi_column_indexes(header) ==
    {header.constraints[k].cols :
        k \in {n \in 1 .. Len(header.constraints) :
                  header.constraints[n].indexed /\ Len(header.constraints[n].cols) > 1}}

\* The operators an index can serve.
IndexCmps == {"Eq", "Lt", "LtEq", "Gt", "GtEq"}

\* The emitted ops that use index cl under operator c.
index_ops_on(found, cl, c) ==
    {j \in 1 .. Len(found) :
        /\ found[j].tag = "Index"
        /\ found[j].arg.columns = cl
        /\ found[j] = make_index_arg(c, cl, found[j].arg.value)}

\* Every column of cl has a pending constraint under c.
all_columns_pending(header, ops, cl, c) ==
    \A i \in 1 .. Len(cl) : pending_literals(header, ops, cl[i], c) # <<>>

\* C27: a multi-column index cl is used under operator c only if every
\* column of cl has a pending constraint with operator c; it then takes one
\* constraint of each column and emits one composite op whose product value
\* lists the literals in the column order of cl; if a column has no such
\* constraint, no op uses cl under c and nothing is consumed for it.  (Stated
\* for headers with one multi-column index, where what is pending for cl is
\* what the conjuncts offer.)
C27_MultiColumnIndex ==
    (ipc = "selected" /\ Cardinality(multi_column_indexes(idx_header)) = 1) =>
        LET cl == CHOOSE x \in multi_column_indexes(idx_header) : TRUE
            fired == {c \in IndexCmps : all_columns_pending(idx_header, idx_ops, cl, c)}
            offered == Len(all_constraints(idx_header, idx_ops, 1))
            unoffering == Cardinality({i \in 1 .. Len(idx_ops) :
                                          constraints_of(idx_header, idx_ops[i]) = <<>>})
        IN  /\ \A c \in fired :
                   LET lits == [i \in 1 .. Len(cl) |->
                                   LET p == pending_literals(idx_header, idx_ops, cl[i], c)
                                   IN  p[Len(p)]]
                   IN  /\ Cardinality(index_ops_on(idx_found, cl, c)) = 1
                       /\ \A j \in index_ops_on(idx_found, cl, c) :
                              idx_found[j].arg.value = ProductValue(lits)
                       /\ \A i \in 1 .. Len(cl) :
                              <<idx_header.fields[cl[i] + 1], c>> \in idx_fields_indexed
            /\ \A c \in IndexCmps \ fired :
                   /\ index_ops_on(idx_found, cl, c) = {}
                   /\ \A i \in 1 .. Len(cl) :
                          (\A k \in 1 .. Len(idx_header.constraints) :
                               idx_header.constraints[k] # Indexed(<<cl[i]>>))
                              => <<idx_header.fields[cl[i] + 1], c>> \notin idx_fields_indexed
            /\ Len(idx_found) = unoffering + offered - Cardinality(fired) * (Len(cl) - 1)

\* b = 2, a = 2, a = 1 on the index [a, b]: the index takes the last a and
\* the b, packed as (a, b), and the other a is left to a scan.
C27_Witness ==
    /\ ipc = "selected"
    /\ idx_header = IdxHeader(<<Indexed(<<0, 1>>)>>)
    /\ idx_ops = <<cmp(IdxField(1), "Eq", IntValue(2)), cmp(IdxField(0), "Eq", IntValue(2)),
                   cmp(IdxField(0), "Eq", IntValue(1))>>
    /\ idx_found = <<make_index_arg("Eq", <<0, 1>>, ProductValue(<<IntValue(1), IntValue(2)>>)),
                     Scan(cmp(IdxField(0), "Eq", IntValue(2)))>>

(***************************************************************************)
(* Plan construction: bounds, and the with_* methods of QueryExpr.         *)
(***************************************************************************)
Unbounded == [kind |-> "Unbounded"]

Included(v) == [kind |-> "Included", value |-> v]

Excluded(v) == [kind |-> "Excluded", value |-> v]

\* A bound that is always inclusive.
bound_included(value, inclusive) == Included(value)

\* QueryExpr::bound
bound(value, inclusive) == IF inclusive THEN Included(value) ELSE Excluded(value)

point(v) == <<Included(v), Included(v)>>

RECURSIVE and_cmp_cols(_, _, _, _, _)
\* The reduce of and_cmp: col_i op value_i, AND-ed from the left.
and_cmp_cols(op, header, cols, elems, i) ==
    IF i = 1 THEN cmp(header.fields[cols[1] + 1], op, elems[1])
    ELSE and(and_cmp_cols(op, header, cols, elems, i - 1),
             cmp(header.fields[cols[i] + 1], op, elems[i]))

\* ColumnOp::and_cmp
and_cmp(op, header, cols, value) ==
    IF Len(cols) = 1 THEN cmp(header.fields[cols[1] + 1], op, value)
    ELSE and_cmp_cols(op, header, cols, value.product, Len(cols))

RECURSIVE from_op_col_bounds(_, _, _)
\* ColumnOp::from_op_col_bounds
from_op_col_bounds(header, cols, bounds) ==
    LET lo == bounds[1]
        hi == bounds[2]
    IN  IF lo.kind = "Included" /\ hi.kind = "Included" /\ lo.value = hi.value
        THEN and_cmp("Eq", header, cols, lo.value)
        ELSE IF lo.kind = "Included" /\ hi.kind = "Unbounded"
        THEN and_cmp("GtEq", header, cols, lo.value)
        ELSE IF lo.kind = "Excluded" /\ hi.kind = "Unbounded"
        THEN and_cmp("Gt", header, cols, lo.value)
        ELSE IF lo.kind = "Unbounded" /\ hi.kind = "Included"
        THEN and_cmp("LtEq", header, cols, hi.value)
        ELSE IF lo.kind = "Unbounded" /\ hi.kind = "Excluded"
        THEN and_cmp("Lt", header, cols, hi.value)
        ELSE IF lo.kind = "Unbounded" /\ hi.kind = "Unbounded"
        THEN [tag |-> "Unreachable"]
        ELSE and(from_op_col_bounds(header, cols, <<lo, Unbounded>>),
                 from_op_col_bounds(header, cols, <<Unbounded, hi>>))

\* self.query.pop(): the plan without its last operator.
popped(self) == [self EXCEPT !.query = SubSeq(@, 1, Len(@) - 1)]

last_op(self) == self.query[Len(self.query)]

push(self, q) == [self EXCEPT !.query = Append(@, q)]

\* The guard of "try to push below join's lhs".
pushes_below_lhs(query, table) ==
    /\ query.tag = "JoinInner"
    /\ query.rhs.source.kind = "DbTable"
    /\ table.table_id # query.rhs.source.db_table.table_id

\* The table with_index_eq hands down when it pushes below a join's lhs.
pushed_table_eq(table, db_table) == db_table

RECURSIVE with_index_eq(_, _, _, _)
with_index_eq(self, table, columns, value) ==
    IF self.query = <<>>
    THEN push(self, IndexScan(table, columns, point(value)))
    ELSE
      LET query == last_op(self)
      IN  IF pushes_below_lhs(query, table)
          THEN push(with_index_eq(popped(self),
                                  pushed_table_eq(table, query.rhs.source.db_table),
                                  columns, value),
                    query)
          ELSE IF query.tag = "JoinInner"
          THEN push(popped(self),
                    [query EXCEPT !.rhs = with_index_eq(@, table, columns, value)])
          ELSE IF query.tag = "Select"
          THEN push(popped(self),
                    Select(and(query.pred, and_cmp("Eq", table.head, columns, value))))
          ELSE push(self, Select(and_cmp("Eq", table.head, columns, value)))

\* The test for the warning: a new exclusive bound equal to the exclusive
\* bound the scan has.
is_never(inclusive, value, existing) == ~inclusive /\ value = existing

RECURSIVE with_index_lower_bound_apart(_, _, _, _, _)
\* A builder that never merges with an index scan.
with_index_lower_bound_apart(self, table, columns, value, inclusive) ==
    IF self.query = <<>>
    THEN push(self, IndexScan(table, columns, <<bound(value, inclusive), Unbounded>>))
    ELSE
      LET query == last_op(self)
          op == from_op_col_bounds(table.head, columns, <<bound(value, inclusive), Unbounded>>)
      IN  IF pushes_below_lhs(query, table)
          THEN push(with_index_lower_bound_apart(popped(self), table, columns, value, inclusive),
                    query)
          ELSE IF query.tag = "JoinInner"
          THEN push(popped(self),
                    [query EXCEPT !.rhs =
                        with_index_lower_bound_apart(@, table, columns, value, inclusive)])
          ELSE IF query.tag = "Select"
          THEN push(popped(self), Select(and(query.pred, op)))
          ELSE push(self, Select(op))

RECURSIVE with_index_lower_bound(_, _, _, _, _)
with_index_lower_bound(self, table, columns, value, inclusive) ==
    IF self.query = <<>>
    THEN push(self, IndexScan(table, columns, <<bound(value, inclusive), Unbounded>>))
    ELSE
      LET query == last_op(self)
          op == from_op_col_bounds(table.head, columns, <<bound(value, inclusive), Unbounded>>)
      IN  IF pushes_below_lhs(query, table)
          THEN push(with_index_lower_bound(popped(self), table, columns, value, inclusive),
                    query)
          ELSE IF query.tag = "JoinInner"
          THEN push(popped(self),
                    [query EXCEPT !.rhs =
                        with_index_lower_bound(@, table, columns, value, inclusive)])
          ELSE IF /\ query.tag = "IndexScan"
                  /\ query.bounds[1].kind = "Unbounded"
                  /\ query.bounds[2].kind \in {"Included", "Excluded"}
                  /\ columns = query.columns
          THEN push(popped(self),
                    IndexScan(table, columns, <<bound(value, inclusive), query.bounds[2]>>))
          ELSE IF query.tag = "Select"
          THEN push(popped(self), Select(and(query.pred, op)))
          ELSE push(self, Select(op))

RECURSIVE with_index_upper_bound(_, _, _, _, _)
with_index_upper_bound(self, table, columns, value, inclusive) ==
    IF self.query = <<>>
    THEN push(self, IndexScan(table, columns, <<Unbounded, bound(value, inclusive)>>))
    ELSE
      LET query == last_op(self)
          op == from_op_col_bounds(table.head, columns, <<Unbounded, bound(value, inclusive)>>)
      IN  IF pushes_below_lhs(query, table)
          THEN push(with_index_upper_bound(popped(self), table, columns, value, inclusive),
                    query)
          ELSE IF query.tag = "JoinInner"
          THEN push(popped(self),
                    [query EXCEPT !.rhs =
                        with_index_upper_bound(@, table, columns, value, inclusive)])
          ELSE IF /\ query.tag = "IndexScan"
                  /\ query.bounds[1].kind \in {"Included", "Excluded"}
                  /\ query.bounds[2].kind = "Unbounded"
                  /\ columns = query.columns
          THEN push(popped(self),
                    IndexScan(table, columns, <<query.bounds[1], bound(value, inclusive)>>))
          ELSE IF query.tag = "Select"
          THEN push(popped(self), Select(and(query.pred, op)))
          ELSE push(self, Select(op))

\* field cmp literal: the shape with_select pushes into a join.
is_field_cmp_value(op) ==
    /\ op.tag = "Cmp"
    /\ op.op \in OpCmp
    /\ op.lhs.tag = "Field"
    /\ op.lhs.field.kind = "Name"
    /\ op.rhs.tag = "Field"
    /\ op.rhs.field.kind = "Value"

RECURSIVE with_select(_, _)
with_select(self, op) ==
    IF self.query = <<>>
    THEN push(self, Select(op))
    ELSE
      LET query == last_op(self)
      IN  IF query.tag = "JoinInner" /\ op.tag = "Cmp" /\ op.op \in OpCmp
          THEN IF /\ is_field_cmp_value(op)
                  /\ column_pos(head(self.source), op.lhs.field.name) # NoCol
               THEN push(with_select(popped(self),
                                     cmp(op.lhs.field.name, op.op, op.rhs.field.value)),
                         query)
               ELSE IF /\ is_field_cmp_value(op)
                       /\ column_pos(head(query.rhs.source), op.lhs.field.name) # NoCol
               THEN push(popped(self),
                         [query EXCEPT !.rhs =
                             with_select(@, cmp(op.lhs.field.name, op.op, op.rhs.field.value))])
               ELSE push(self, Select(Cmp(op.op, op.lhs, op.rhs)))
          ELSE IF query.tag = "Select"
          THEN push(popped(self), Select(and(query.pred, op)))
          ELSE push(self, Select(op))

\* QueryExpr::with_join_inner
with_join_inner(self, with, lhs, rhs, semi) == push(self, JoinInner(with, lhs, rhs, semi))

\* SourceExpr::table_id: NoTable for an in-memory source.
table_id(src) == IF src.kind = "DbTable" THEN src.db_table.table_id ELSE NoTable

(***************************************************************************)
(* The optimizer: try_semi_join, try_index_join, IndexJoin::reorder,       *)
(* optimize_select and optimize.                                           *)
(***************************************************************************)
\* A rewrite that keeps only the join.
try_semi_join_drop_rest(self) ==
    IF table_id(self.source) = NoTable THEN self
    ELSE IF Len(self.query) = 0 THEN QueryExpr(self.source, <<>>)
    ELSE IF ~(self.query[1].tag = "JoinInner" /\ ~self.query[1].semi) THEN self
    ELSE IF Len(self.query) = 1 THEN self
    ELSE IF ~(self.query[2].tag = "Project" /\ self.query[2].wildcard # NoTable) THEN self
    ELSE IF self.query[2].wildcard # table_id(self.source) THEN self
    ELSE QueryExpr(self.source, <<[self.query[1] EXCEPT !.semi = TRUE]>>)

\* A rewrite that takes a wildcard projection onto any table.
try_semi_join_any_wildcard(self) ==
    IF table_id(self.source) = NoTable THEN self
    ELSE IF Len(self.query) = 0 THEN QueryExpr(self.source, <<>>)
    ELSE IF ~(self.query[1].tag = "JoinInner" /\ ~self.query[1].semi) THEN self
    ELSE IF Len(self.query) = 1 THEN self
    ELSE IF ~(self.query[2].tag = "Project" /\ self.query[2].wildcard # NoTable) THEN self
    ELSE QueryExpr(self.source,
                   <<[self.query[1] EXCEPT !.semi = TRUE]>>
                       \o SubSeq(self.query, 3, Len(self.query)))

try_semi_join(self) ==
    IF table_id(self.source) = NoTable THEN self
    ELSE IF Len(self.query) = 0 THEN QueryExpr(self.source, <<>>)
    ELSE IF ~(self.query[1].tag = "JoinInner" /\ ~self.query[1].semi) THEN self
    ELSE IF Len(self.query) = 1 THEN self
    ELSE IF ~(self.query[2].tag = "Project" /\ self.query[2].wildcard # NoTable) THEN self
    ELSE IF self.query[2].wildcard # table_id(self.source) THEN self
    ELSE QueryExpr(self.source,
                   <<[self.query[1] EXCEPT !.semi = TRUE]>>
                       \o SubSeq(self.query, 3, Len(self.query)))

\* Header::has_constraint: some indexed constraint covers the field's column.
has_constraint(header, field) ==
    /\ column_pos(header, field) # NoCol
    /\ \E i \in 1 .. Len(header.constraints) :
          /\ header.constraints[i].indexed
          /\ \E j \in 1 .. Len(header.constraints[i].cols) :
                header.constraints[i].cols[j] = column_pos(header, field)

\* A rewrite that looks at the first operator only and keeps the others.
try_index_join_first_op(self) ==
    IF Len(self.query) = 0 THEN self
    ELSE IF is_mem_table(self.source) THEN self
    ELSE
      LET join == self.query[1]
      IN  IF /\ join.tag = "JoinInner"
             /\ join.semi
             /\ join.rhs.query # <<>>
             /\ column_pos(head(self.source), join.col_lhs) # NoCol
             /\ has_constraint(head(self.source), join.col_lhs)
          THEN QueryExpr(self.source,
                   <<IndexJoin(join.rhs, join.col_rhs, self.source, NoPred,
                               column_pos(head(self.source), join.col_lhs), TRUE)>>
                       \o Tail(self.query))
          ELSE self

\* A rewrite that does not ask the rhs plan to have operators.
try_index_join_bare_rhs(self) ==
    IF Len(self.query) # 1 THEN self
    ELSE IF is_mem_table(self.source) THEN self
    ELSE
      LET join == self.query[1]
      IN  IF /\ join.tag = "JoinInner"
             /\ join.semi
             /\ column_pos(head(self.source), join.col_lhs) # NoCol
             /\ has_constraint(head(self.source), join.col_lhs)
          THEN QueryExpr(self.source,
                   <<IndexJoin(join.rhs, join.col_rhs, self.source, NoPred,
                               column_pos(head(self.source), join.col_lhs), TRUE)>>)
          ELSE self

try_index_join(self) ==
    IF Len(self.query) # 1 THEN self
    ELSE IF is_mem_table(self.source) THEN self
    ELSE
      LET join == self.query[1]
      IN  IF /\ join.tag = "JoinInner"
             /\ join.semi
             /\ join.rhs.query # <<>>
             /\ column_pos(head(self.source), join.col_lhs) # NoCol
             /\ has_constraint(head(self.source), join.col_lhs)
          THEN QueryExpr(self.source,
                   <<IndexJoin(join.rhs, join.col_rhs, self.source, NoPred,
                               column_pos(head(self.source), join.col_lhs), TRUE)>>)
          ELSE self

\* impl From<Query> for Option<ColumnOp>, for the operators that yield Some.
query_predicate(q) ==
    IF q.tag = "IndexScan" THEN from_op_col_bounds(q.table.head, q.columns, q.bounds)
    ELSE q.pred

RECURSIVE reduce_and_selects(_, _)
\* A reduce that passes over the index scans.
reduce_and_selects(query, i) ==
    IF i = 0 THEN NoPred
    ELSE IF query[i].tag # "Select" THEN reduce_and_selects(query, i - 1)
    ELSE LET before == reduce_and_selects(query, i - 1)
         IN  IF before = NoPred THEN query[i].pred
             ELSE and(before, query[i].pred)

RECURSIVE reduce_and(_, _)
\* filter_map(..).reduce(ColumnOp::and) over the first i operators.
reduce_and(query, i) ==
    IF i = 0 THEN NoPred
    ELSE IF query[i].tag \notin {"IndexScan", "Select"} THEN reduce_and(query, i - 1)
    ELSE LET before == reduce_and(query, i - 1)
         IN  IF before = NoPred THEN query_predicate(query[i])
             ELSE and(before, query_predicate(query[i]))

RowCountLimit == 500

\* A rule that already keeps them at the limit.
index_side_is_large_at_limit(count) == count >= RowCountLimit

\* The rule that keeps the sides of an index join as they are.
index_side_is_large(count) == count > RowCountLimit

\* A rule that never keeps them.
index_side_is_never_large(count) == FALSE

\* IndexJoin::reorder
reorder(self, row_count) ==
    IF is_mem_table(self.probe_side.source) THEN self
    ELSE IF ~has_constraint(head(self.probe_side.source), self.probe_field) THEN self
    ELSE IF ~(\A i \in 1 .. Len(self.probe_side.query) :
                 self.probe_side.query[i].tag \in {"Select", "IndexScan"})
    THEN self
    ELSE IF /\ self.index_side.kind = "DbTable"
            /\ index_side_is_large(row_count[self.index_side.db_table.table_id])
    THEN self
    ELSE IndexJoin(
             IF self.index_select # NoPred
             THEN QueryExpr(self.index_side, <<Select(self.index_select)>>)
             ELSE QueryExpr(self.index_side, <<>>),
             head(self.index_side).fields[self.index_col + 1],
             self.probe_side.source,
             reduce_and(self.probe_side.query, Len(self.probe_side.query)),
             column_pos(head(self.probe_side.source), self.probe_field),
             ~self.return_index_rows)

\* IndexJoin::to_inner_join
to_inner_join(self) ==
    LET col_idx == head(self.index_side).fields[self.index_col + 1]
    IN  IF self.return_index_rows
        THEN LET inner_join == JoinInner(self.probe_side, col_idx, self.probe_field, TRUE)
             IN  QueryExpr(self.index_side,
                           IF self.index_select # NoPred
                           THEN <<Select(self.index_select), inner_join>>
                           ELSE <<inner_join>>)
        ELSE LET rhs == QueryExpr(self.index_side,
                                  IF self.index_select # NoPred
                                  THEN <<Select(self.index_select)>> ELSE <<>>)
             IN  QueryExpr(self.probe_side.source,
                           <<JoinInner(rhs, self.probe_field, col_idx, TRUE)>>)

\* get_db_table().unwrap() of a schema that select_best_index found an index in.
db_table_of(schema) == schema.db_table

\* optimize_select, one op found by find_sargable_ops: st = [q, fields_found].
apply_found(st, op, schema) ==
    IF /\ op.tag = "Scan"
       /\ op.op.tag = "Cmp"
       /\ op.op.lhs.tag = "Field"
       /\ op.op.lhs.field.kind = "Name"
       /\ op.op.op \in OpCmp
       /\ <<op.op.lhs.field.name, op.op.op>> \in st.fields_found
    THEN st
    ELSE
      LET fields_found ==
              IF /\ op.tag = "Scan"
                 /\ op.op.tag = "Cmp"
                 /\ op.op.lhs.tag = "Field"
                 /\ op.op.lhs.field.kind = "Name"
                 /\ op.op.op \in OpCmp
              THEN st.fields_found \cup {<<op.op.lhs.field.name, op.op.op>>}
              ELSE st.fields_found
          q == IF op.tag = "Scan" THEN with_select(st.q, op.op)
               ELSE IF op.arg.kind = "Eq"
               THEN with_index_eq(st.q, db_table_of(schema), op.arg.columns, op.arg.value)
               ELSE IF op.arg.kind = "LowerBound"
               THEN with_index_lower_bound(st.q, db_table_of(schema), op.arg.columns,
                                           op.arg.value, op.arg.inclusive)
               ELSE with_index_upper_bound(st.q, db_table_of(schema), op.arg.columns,
                                           op.arg.value, op.arg.inclusive)
      IN  [q |-> q, fields_found |-> fields_found]

RECURSIVE apply_all_found(_, _, _, _)
apply_all_found(st, found, i, schema) ==
    IF i > Len(found) THEN st
    ELSE Bind(apply_found(st, found[i], schema),
              LAMBDA next : apply_all_found(next, found, i + 1, schema))

RECURSIVE optimize_select_tables(_, _, _, _)
\* The loop of optimize_select over the table schemas of the plan.
optimize_select_tables(st, op, tables, i) ==
    IF i > Len(tables) THEN st
    ELSE Bind(find_sargable_ops(st.fields_found, head(tables[i]), op),
              LAMBDA r :
                  Bind(apply_all_found([q |-> st.q, fields_found |-> r.fields_indexed],
                                       r.found, 1, tables[i]),
                       LAMBDA next : optimize_select_tables(next, op, tables, i + 1)))

optimize_select(q, op, tables) ==
    optimize_select_tables([q |-> q, fields_found |-> {}], op, tables, 1).q

is_index_join_only(query) == Len(query) = 1 /\ query[1].tag = "IndexJoin"

RECURSIVE optimize(_, _), optimize_ops(_, _, _, _, _)
\* The loop of optimize over the operators of the plan.
optimize_ops(query, i, q, tables, row_count) ==
    IF i > Len(query) THEN q
    ELSE Bind(CASE query[i].tag = "Select" -> optimize_select(q, query[i].pred, tables)
                [] query[i].tag = "JoinInner" ->
                     Bind(optimize(query[i].rhs, row_count),
                          LAMBDA rhs : with_join_inner(q, rhs, query[i].col_lhs,
                                                       query[i].col_rhs, query[i].semi))
                [] OTHER -> push(q, query[i]),
              LAMBDA next : optimize_ops(query, i + 1, next, tables, row_count))

\* One round of optimize: the loop over the operators, then try_semi_join
\* and try_index_join.
optimize_round(self, row_count) ==
    Bind(optimize_ops(self.query, 1, QueryExpr(self.source, <<>>),
                      sources(self), row_count),
         LAMBDA rewritten : try_index_join(try_semi_join(rewritten)))

\* QueryExpr::optimize
optimize(self, row_count) ==
    IF is_index_join_only(self.query)
    THEN QueryExpr(self.source, <<reorder(self.query[1], row_count)>>)
    ELSE Bind(optimize_round(self, row_count),
              LAMBDA q : IF is_index_join_only(q.query)
                         THEN optimize(q, row_count) ELSE q)

\* An optimize that runs its round on every plan.
never_reorders_only(query) == FALSE

\* The test optimize makes before its loop: a plan whose sole operator is an
\* IndexJoin is reordered and returned.
reorders_only(query) == is_index_join_only(query)

\* The most calls of optimize on its own result that are followed.
MaxPasses == 3

RECURSIVE optimize_reentries(_, _, _)
\* How many times optimize calls itself on its own result, starting from
\* self; the count stops after `left` calls.
optimize_reentries(self, row_count, left) ==
    IF reorders_only(self.query) THEN 0
    ELSE Bind(optimize_round(self, row_count),
              LAMBDA q : IF ~is_index_join_only(q.query) THEN 0
                         ELSE IF left = 0 THEN 1
                         ELSE 1 + optimize_reentries(q, row_count, left - 1))

(***************************************************************************)
(* Plan execution: the result set of a plan over the contents of the       *)
(* tables, operators applied left to right.                                *)
(***************************************************************************)
Relation(header, rows, failed) == [head |-> header, rows |-> rows, failed |-> failed]

\* The rows a source yields: a table of the database, or the in-memory
\* table the provider holds for the source id.
source_rel(src, db) ==
    Relation(head(src).fields,
             IF is_mem_table(src) THEN db.mem[src.source_id]
             ELSE db.tables[src.db_table.table_id],
             FALSE)

in_bounds(key, bounds) ==
    /\ CASE bounds[1].kind = "Unbounded" -> TRUE
         [] bounds[1].kind = "Included" -> value_cmp(key, bounds[1].value) >= 0
         [] bounds[1].kind = "Excluded" -> value_cmp(key, bounds[1].value) > 0
    /\ CASE bounds[2].kind = "Unbounded" -> TRUE
         [] bounds[2].kind = "Included" -> value_cmp(key, bounds[2].value) <= 0
         [] bounds[2].kind = "Excluded" -> value_cmp(key, bounds[2].value) < 0

eval_select(pred, rel) ==
    LET header == [fields |-> rel.head]
    IN  Relation(rel.head,
                 {r \in rel.rows : compare(pred, r, header) = EvalOk(TRUE)},
                 rel.failed \/ \E r \in rel.rows : compare(pred, r, header).status # "Ok")

eval_project(cols, rel) ==
    LET header == [fields |-> rel.head]
        known == \A i \in 1 .. Len(cols) :
                    cols[i].kind = "Value" \/ column_pos(header, cols[i].name) # NoCol
    IN  IF ~known THEN Relation(<<>>, {}, TRUE)
        ELSE Relation([i \in 1 .. Len(cols) |->
                          IF cols[i].kind = "Name" THEN cols[i].name ELSE FieldName(0, i - 1)],
                      {[i \in 1 .. Len(cols) |-> get(r, cols[i], header).val] : r \in rel.rows},
                      rel.failed)

\* Semijoin: the lhs rows that match; inner join: the concatenated rows.
eval_join(lhs, rhs, col_lhs, col_rhs, semi) ==
    LET l == index_of(lhs.head, col_lhs, 1)
        r == index_of(rhs.head, col_rhs, 1)
    IN  IF l = NoCol \/ r = NoCol THEN Relation(<<>>, {}, TRUE)
        ELSE IF semi
        THEN Relation(lhs.head,
                      {x \in lhs.rows : \E y \in rhs.rows : x[l + 1] = y[r + 1]},
                      lhs.failed \/ rhs.failed)
        ELSE Relation(lhs.head \o rhs.head,
                      {x \o y : <<x, y>> \in {p \in lhs.rows \X rhs.rows : p[1][l + 1] = p[2][r + 1]}},
                      lhs.failed \/ rhs.failed)

\* An index join: the rows of one side that match some row of the other.
eval_index_join(probe, index, probe_field, index_col, return_index_rows) ==
    LET p == index_of(probe.head, probe_field, 1)
    IN  IF p = NoCol THEN Relation(<<>>, {}, TRUE)
        ELSE IF return_index_rows
        THEN Relation(index.head,
                      {y \in index.rows : \E x \in probe.rows : x[p + 1] = y[index_col + 1]},
                      probe.failed \/ index.failed)
        ELSE Relation(probe.head,
                      {x \in probe.rows : \E y \in index.rows : x[p + 1] = y[index_col + 1]},
                      probe.failed \/ index.failed)

RECURSIVE eval(_, _), eval_ops(_, _, _, _)
\* One operator.  An index scan of a plan over a database table reads the
\* scan's table; over an in-memory source it filters the rows so far.
eval_op(expr, q, rel, db) ==
    CASE q.tag = "Select" -> eval_select(q.pred, rel)
      [] q.tag = "Project" -> eval_project(q.cols, rel)
      [] q.tag = "JoinInner" -> eval_join(rel, eval(q.rhs, db), q.col_lhs, q.col_rhs, q.semi)
      [] q.tag = "IndexScan" ->
            LET base == IF is_mem_table(expr.source) THEN rel
                        ELSE source_rel(SourceDbTable(q.table), db)
            IN  Relation(base.head,
                         {r \in base.rows : in_bounds(project_key(r, q.columns), q.bounds)},
                         base.failed)
      [] q.tag = "IndexJoin" ->
            LET index == IF q.index_select = NoPred THEN source_rel(q.index_side, db)
                         ELSE eval_select(q.index_select, source_rel(q.index_side, db))
            IN  eval_index_join(eval(q.probe_side, db), index, q.probe_field, q.index_col,
                                q.return_index_rows)

eval_ops(expr, i, rel, db) ==
    IF i > Len(expr.query) THEN rel
    ELSE eval_ops(expr, i + 1, eval_op(expr, expr.query[i], rel, db), db)

eval(expr, db) == eval_ops(expr, 1, source_rel(expr.source, db), db)

\* Two plans produce the same result set, or both fail.
same_result(p, q, db) ==
    LET x == eval(p, db)
        y == eval(q, db)
    IN  /\ x.failed = y.failed
        /\ ~x.failed => x.rows = y.rows

(***************************************************************************)
(* The optimizer runs: optimize, optimize again, and try_semi_join, of     *)
(* plans over two tables lhs(a, b) and rhs(c, d), each indexed on its      *)
(* first column.                                                           *)
(***************************************************************************)
MaxOptOps == 2

LhsId == 0

RhsId == 1

OptHeader(id, name, constraints) ==
    Header(id, name, <<FieldName(id, 0), FieldName(id, 1)>>, constraints)

LhsTable == DbTable(OptHeader(LhsId, "lhs", <<Indexed(<<0>>)>>), "Public")

RhsTable == DbTable(OptHeader(RhsId, "rhs", <<Indexed(<<0>>)>>), "Public")

\* The plan sources: the table lhs, or an in-memory table of its rows.
DeltaId == 0

OptSources ==
    {SourceDbTable(LhsTable),
     SourceInMemory(DeltaId, OptHeader(LhsId, "lhs", <<>>), "Public", 0)}

OptSelects ==
    {Select(cmp(FieldName(LhsId, 0), "Eq", IntValue(1))),
     Select(cmp(FieldName(LhsId, 1), "Gt", IntValue(1))),
     Select(and(cmp(FieldName(LhsId, 1), "Gt", IntValue(1)),
                cmp(FieldName(LhsId, 1), "Gt", IntValue(2)))),
     Select(and(cmp(FieldName(LhsId, 1), "Gt", IntValue(1)),
                cmp(FieldName(LhsId, 0), "Eq", IntValue(1)))),
     Select(cmp(FieldName(RhsId, 0), "Eq", IntValue(1))),
     Select(cmp(FieldName(RhsId, 1), "Gt", IntValue(1)))}

\* The right-hand side of a join: rhs, as it is or filtered.
OptRhsPlans ==
    {QueryExpr(SourceDbTable(RhsTable), <<>>),
     QueryExpr(SourceDbTable(RhsTable),
               <<Select(cmp(FieldName(RhsId, 1), "Gt", IntValue(1)))>>)}

\* rhs filtered on its indexed column.
OptRhsSargable ==
    QueryExpr(SourceDbTable(RhsTable),
              <<Select(cmp(FieldName(RhsId, 0), "Eq", IntValue(1)))>>)

OptJoins ==
    {JoinInner(r, FieldName(LhsId, c), FieldName(RhsId, 0), s) :
        r \in OptRhsPlans, c \in 0 .. 1, s \in BOOLEAN}
        \cup {JoinInner(OptRhsSargable, FieldName(LhsId, 0), FieldName(RhsId, 0), s) :
                  s \in BOOLEAN}

OptWildcard(id) ==
    Project(<<FieldExprName(FieldName(id, 0)), FieldExprName(FieldName(id, 1))>>, id)

OptProjects ==
    {OptWildcard(LhsId), OptWildcard(RhsId),
     Project(<<FieldExprName(FieldName(LhsId, 0))>>, NoTable)}

OptOps == OptSelects \cup OptJoins \cup OptProjects

\* What follows a join and a wildcard projection onto lhs.
OptRestOps ==
    {Select(cmp(FieldName(LhsId, 0), "Eq", IntValue(1))),
     Select(cmp(FieldName(LhsId, 1), "Gt", IntValue(1))),
     Project(<<FieldExprName(FieldName(LhsId, 0))>>, NoTable),
     OptWildcard(LhsId),
     JoinInner(QueryExpr(SourceDbTable(RhsTable), <<>>),
               FieldName(LhsId, 0), FieldName(RhsId, 0), FALSE)}

\* Up to MaxOptOps operators, or a join and a wildcard projection onto lhs
\* followed by up to MaxOptOps operators.
OptQueries ==
    SeqsUpTo(OptOps, MaxOptOps)
        \cup {<<j, OptWildcard(LhsId)>> \o rest :
                 j \in OptJoins, rest \in SeqsUpTo(OptRestOps, MaxOptOps)}

OptPlans == {QueryExpr(s, q) : s \in OptSources, q \in OptQueries}

\* The row_count oracles: every table at the limit, or every table above it.
RowCounts == {[t \in {LhsId, RhsId} |-> n] : n \in {RowCountLimit, RowCountLimit + 1}}

NoPlan == QueryExpr(SourceDbTable(LhsTable), <<>>)

OptStart ==
    /\ opc = "new"
    /\ opt_plan \in OptPlans
    /\ opt_row_count \in RowCounts
    /\ optimized = NoPlan
    /\ reoptimized = NoPlan
    /\ semi_joined = NoPlan

OptIdle ==
    /\ opc = "idle"
    /\ opt_plan = NoPlan
    /\ opt_row_count = [t \in {LhsId, RhsId} |-> 0]
    /\ optimized = NoPlan
    /\ reoptimized = NoPlan
    /\ semi_joined = NoPlan

Optimize ==
    /\ opc = "new"
    /\ optimized' = optimize(opt_plan, opt_row_count)
    /\ opc' = "optimized"
    /\ UNCHANGED <<opt_plan, opt_row_count, reoptimized, semi_joined>>
    /\ UNCHANGED <<layoutVars, authVars, indexVars, sourceVars, flattenVars, rewriteVars, compareVars>>

Reoptimize ==
    /\ opc = "optimized"
    /\ reoptimized' = optimize(optimized, opt_row_count)
    /\ opc' = "reoptimized"
    /\ UNCHANGED <<opt_plan, opt_row_count, optimized, semi_joined>>
    /\ UNCHANGED <<layoutVars, authVars, indexVars, sourceVars, flattenVars, rewriteVars, compareVars>>

TrySemiJoin ==
    /\ opc = "new"
    /\ semi_joined' = try_semi_join(opt_plan)
    /\ opc' = "semi_joined"
    /\ UNCHANGED <<opt_plan, opt_row_count, optimized, reoptimized>>
    /\ UNCHANGED <<layoutVars, authVars, indexVars, sourceVars, flattenVars, rewriteVars, compareVars>>

NextOpt == Optimize \/ Reoptimize \/ TrySemiJoin

(***************************************************************************)
(* Properties of the optimizer.                                            *)
(***************************************************************************)
OptRows == {<<IntValue(x), IntValue(y)>> : x \in 1 .. 3, y \in 1 .. 3}

\* Contents of lhs, of rhs and of the in-memory table.
Database(lhs, rhs, delta) ==
    [tables |-> [t \in {LhsId, RhsId} |-> IF t = LhsId THEN lhs ELSE rhs],
     mem |-> [s \in {DeltaId} |-> delta]]

Databases ==
    {Database(OptRows, OptRows, OptRows),
     Database(OptRows, {r \in OptRows : r[1] = IntValue(2)}, {r \in OptRows : r[2] = IntValue(2)}),
     Database({r \in OptRows : r[1] # r[2]}, {r \in OptRows : r[1] = r[2]}, {})}

\* C3: for every plan, every database contents and every row_count oracle,
\* the optimized plan and the plan produce the same result set.
C3_OptimizePreservesResults ==
    opc = "optimized" =>
        \A db \in Databases : same_result(opt_plan, optimized, db)

\* The two-conjunct filter b > 1 AND b > 2 on lhs has been optimized, and
\* the optimized plan returns other rows than the plan.
C3_Witness ==
    /\ opc = "optimized"
    /\ opt_plan = QueryExpr(SourceDbTable(LhsTable),
                      <<Select(and(cmp(FieldName(LhsId, 1), "Gt", IntValue(1)),
                                   cmp(FieldName(LhsId, 1), "Gt", IntValue(2))))>>)
    /\ ~eval(opt_plan, Database(OptRows, OptRows, OptRows)).failed
    /\ eval(optimized, Database(OptRows, OptRows, OptRows)).rows
           # eval(opt_plan, Database(OptRows, OptRows, OptRows)).rows

\* C9: optimizing an optimized plan changes nothing, except that an
\* optimized plan that is a single index join may take one more pass, after
\* which it no longer changes (the sides of the index join do not keep
\* swapping).
C9_OptimizeIdempotent ==
    opc = "reoptimized" =>
        \/ reoptimized = optimized
        \/ /\ is_index_join_only(optimized.query)
           /\ optimize(reoptimized, opt_row_count) = reoptimized

\* An optimized plan with no index join has been optimized again, and the
\* second pass changed it.
C9_Witness ==
    /\ opc = "reoptimized"
    /\ opt_plan.query = <<Select(cmp(FieldName(LhsId, 1), "Gt", IntValue(1))),
                          Select(cmp(FieldName(LhsId, 0), "Eq", IntValue(1)))>>
    /\ ~is_index_join_only(optimized.query)
    /\ reoptimized # optimized

\* The pattern of the semijoin rewrite: a database-table source, an inner
\* join that is not a semijoin, then a wildcard projection onto the source.
SemiJoinPattern(p) ==
    /\ p.source.kind = "DbTable"
    /\ Len(p.query) >= 2
    /\ p.query[1].tag = "JoinInner"
    /\ ~p.query[1].semi
    /\ p.query[2].tag = "Project"
    /\ p.query[2].wildcard = p.source.db_table.table_id

\* The plan the rewrite is to yield: same source, the join as a semijoin,
\* the projection gone, the remaining operators in their order.
SemiJoinRewritten(p) ==
    [source |-> p.source,
     query |-> <<JoinInner(p.query[1].rhs, p.query[1].col_lhs, p.query[1].col_rhs, TRUE)>>
                   \o [i \in 1 .. Len(p.query) - 2 |-> p.query[i + 2]]]

\* No operator of the plan is a filter, and no join filters its rhs.
NothingToFold(p) ==
    \A i \in 1 .. Len(p.query) :
        /\ p.query[i].tag # "Select"
        /\ p.query[i].tag = "JoinInner" => p.query[i].rhs.query = <<>>

\* C10: on a plan of the pattern try_semi_join yields the rewritten plan,
\* and so does optimize when the plan has no filter to fold: no Select
\* among its operators and no operators in the rhs of its joins.
C10_SemiJoinRewrite ==
    /\ (opc = "semi_joined" /\ SemiJoinPattern(opt_plan))
           => semi_joined = SemiJoinRewritten(opt_plan)
    /\ (opc = "optimized" /\ SemiJoinPattern(opt_plan) /\ NothingToFold(opt_plan))
           => optimized = SemiJoinRewritten(opt_plan)

\* try_semi_join has rewritten a plan of the pattern that has two distinct
\* operators after the projection.
C10_Witness ==
    /\ opc = "semi_joined"
    /\ SemiJoinPattern(opt_plan)
    /\ Len(opt_plan.query) = 4
    /\ opt_plan.query[3] # opt_plan.query[4]
    /\ Len(semi_joined.query) = 3

\* C10 as stated: on every plan of the pattern both try_semi_join and
\* optimize yield the rewritten plan.
C10_SemiJoinRewriteAlsoByOptimize ==
    /\ (opc = "semi_joined" /\ SemiJoinPattern(opt_plan))
           => semi_joined = SemiJoinRewritten(opt_plan)
    /\ (opc = "optimized" /\ SemiJoinPattern(opt_plan))
           => optimized = SemiJoinRewritten(opt_plan)

\* A plan that is one inner join, alone or followed by a wildcard
\* projection onto the table of the join's rhs.
JoinWithoutLhsProject(p) ==
    /\ p.source.kind = "DbTable"
    /\ Len(p.query) \in {1, 2}
    /\ p.query[1].tag = "JoinInner"
    /\ ~p.query[1].semi
    /\ Len(p.query) = 2 =>
          /\ p.query[2].tag = "Project"
          /\ p.query[2].wildcard = table_id(p.query[1].rhs.source)
          /\ p.query[2].wildcard # table_id(p.source)

\* C11: try_semi_join returns its input whenever the plan is not of the
\* semijoin pattern; optimize leaves an inner join with no projection, or
\* with a wildcard projection onto the rhs table, unchanged when the rhs of
\* the join has no operators.
C11_NoPatternNoRewrite ==
    /\ (opc = "semi_joined" /\ ~SemiJoinPattern(opt_plan)) => semi_joined = opt_plan
    /\ (opc = "optimized" /\ JoinWithoutLhsProject(opt_plan)
            /\ opt_plan.query[1].rhs.query = <<>>)
           => optimized = opt_plan

\* try_semi_join has been handed an inner join followed by a wildcard
\* projection onto the rhs table.
C11_Witness ==
    /\ opc = "semi_joined"
    /\ JoinWithoutLhsProject(opt_plan)
    /\ Len(opt_plan.query) = 2
    /\ semi_joined = opt_plan

\* C11 as stated: optimize leaves every such plan unchanged.
C11_OptimizeLeavesJoinUnchanged ==
    /\ (opc = "semi_joined" /\ ~SemiJoinPattern(opt_plan)) => semi_joined = opt_plan
    /\ (opc = "optimized" /\ JoinWithoutLhsProject(opt_plan)) => optimized = opt_plan


\* field cmp literal with cmp one of =, <, <=, >, >=, on a column of the
\* source that has an index of its own.
answerable_by_index(conjunct, src) ==
    /\ is_field_cmp_value(conjunct)
    /\ conjunct.op \in {"Eq", "Lt", "LtEq", "Gt", "GtEq"}
    /\ column_pos(head(src), conjunct.lhs.field.name) # NoCol
    /\ \E i \in 1 .. Len(head(src).constraints) :
          /\ head(src).constraints[i].indexed
          /\ head(src).constraints[i].cols = <<column_pos(head(src), conjunct.lhs.field.name)>>

\* The conjuncts of the Select ops of a plan.
select_conjuncts(p) ==
    UNION {{flatten_ands(p.query[i].pred)[k] : k \in 1 .. Len(flatten_ands(p.query[i].pred))}
           : i \in {j \in 1 .. Len(p.query) : p.query[j].tag = "Select"}}

\* C17: after optimize no Select of the plan holds a conjunct field cmp
\* literal that an index declared on the plan's source answers; each of them
\* has become an IndexScan.
C17_NoSargableSelectLeft ==
    opc = "optimized" =>
        \A conjunct \in select_conjuncts(optimized) :
            ~answerable_by_index(conjunct, optimized.source)

\* A Select with an answerable conjunct was folded into an IndexScan and no
\* Select of the optimized plan holds an answerable conjunct.
C17_Witness ==
    /\ opc = "optimized"
    /\ \E conjunct \in select_conjuncts(opt_plan) : answerable_by_index(conjunct, opt_plan.source)
    /\ \E i \in 1 .. Len(optimized.query) : optimized.query[i].tag = "IndexScan"
    /\ \A conjunct \in select_conjuncts(optimized) :
          ~answerable_by_index(conjunct, optimized.source)


conjuncts_of(pred) == {flatten_ands(pred)[k] : k \in 1 .. Len(flatten_ands(pred))}

RECURSIVE plan_conjuncts(_)
\* The conjuncts of every filter of a plan, the plans inside its joins
\* included.
plan_conjuncts(p) ==
    UNION {CASE p.query[i].tag = "Select" -> conjuncts_of(p.query[i].pred)
             [] p.query[i].tag = "JoinInner" -> plan_conjuncts(p.query[i].rhs)
             [] p.query[i].tag = "IndexJoin" ->
                  plan_conjuncts(p.query[i].probe_side)
                      \cup (IF p.query[i].index_select = NoPred THEN {}
                            ELSE conjuncts_of(p.query[i].index_select))
             [] OTHER -> {}
           : i \in 1 .. Len(p.query)}

RECURSIVE plan_index_scans(_)
\* The index scans of a plan, the plans inside its joins included.
plan_index_scans(p) ==
    UNION {CASE p.query[i].tag = "IndexScan" -> {p.query[i]}
             [] p.query[i].tag = "JoinInner" -> plan_index_scans(p.query[i].rhs)
             [] p.query[i].tag = "IndexJoin" -> plan_index_scans(p.query[i].probe_side)
             [] OTHER -> {}
           : i \in 1 .. Len(p.query)}

\* The index scan is on the column of the conjunct and one of its bounds is
\* the literal of the conjunct.
scan_covers(scan, conjunct) ==
    /\ is_field_cmp_value(conjunct)
    /\ scan.columns = <<column_pos(scan.table.head, conjunct.lhs.field.name)>>
    /\ \E b \in 1 .. 2 :
          /\ scan.bounds[b].kind # "Unbounded"
          /\ scan.bounds[b].value = conjunct.rhs.field.value

\* The conjunct is in a filter of the plan or was turned into an index scan.
kept_in(conjunct, p) ==
    \/ conjunct \in plan_conjuncts(p)
    \/ \E scan \in plan_index_scans(p) : scan_covers(scan, conjunct)

\* C18: optimize loses no conjunct of a Select: each one is in a Select of the
\* optimized plan unless it became an IndexScan, also when two conjuncts share
\* field and operator and differ in the literal.
C18_NoConjunctLost ==
    opc = "optimized" =>
        \A conjunct \in plan_conjuncts(opt_plan) : kept_in(conjunct, optimized)

\* Of a Select with two conjuncts one became an IndexScan and the other is
\* still in a Select.
C18_Witness ==
    /\ opc = "optimized"
    /\ \E i \in 1 .. Len(opt_plan.query) :
          /\ opt_plan.query[i].tag = "Select"
          /\ Len(flatten_ands(opt_plan.query[i].pred)) = 2
          /\ \E c, d \in conjuncts_of(opt_plan.query[i].pred) :
                /\ c # d
                /\ c \in plan_conjuncts(optimized)
                /\ d \notin plan_conjuncts(optimized)
                /\ \E scan \in plan_index_scans(optimized) : scan_covers(scan, d)


RECURSIVE nested_plans(_)
\* A plan and the plans nested in it: the rhs of each JoinInner and the
\* probe side of each IndexJoin, at every depth.
nested_plans(p) ==
    {p} \cup UNION {CASE p.query[i].tag = "JoinInner" -> nested_plans(p.query[i].rhs)
                      [] p.query[i].tag = "IndexJoin" -> nested_plans(p.query[i].probe_side)
                      [] OTHER -> {}
                    : i \in 1 .. Len(p.query)}

\* An IndexJoin of the plan is its first and only op.
index_join_alone(p) ==
    \A i \in 1 .. Len(p.query) :
        p.query[i].tag = "IndexJoin" => (i = 1 /\ Len(p.query) = 1)

None == [some |-> FALSE, value |-> "-"]

Some(v) == [some |-> TRUE, value |-> v]

\* The capacity N of the ArrayVec behind a SourceSet<T, N>.
SourceSetCapacity == 3

\* SourceSet::empty
source_set_empty == <<>>

\* SourceSet::next_id: SourceId(self.0.len())
next_id(self) == Len(self)

\* ArrayVec::push panics when the vector is full.
push_panics(self) == Len(self) >= SourceSetCapacity

\* SourceSet::add: the id is read, then Some(table) is pushed.
source_set_add(self, table) ==
    [set |-> Append(self, Some(table)), result |-> next_id(self)]

\* A take which hands out the entry and leaves it in place.
source_set_peek(self, id) ==
    IF id < Len(self)
    THEN [set |-> self, result |-> self[id + 1]]
    ELSE [set |-> self, result |-> None]

\* SourceSet::take: get_mut(id).map(mem::take).unwrap_or_default().  SourceId
\* i is the entry at position i + 1.
source_set_take(self, id) ==
    IF id < Len(self)
    THEN [set |-> [self EXCEPT ![id + 1] = None], result |-> self[id + 1]]
    ELSE [set |-> self, result |-> None]

\* SourceSet::len
source_set_len(self) == Len(self)

\* SourceSet::is_empty
source_set_is_empty(self) == Len(self) = 0

\* The tables added and the ids asked for.
SourceTables == {"t1", "t2"}

SourceIds == 0 .. SourceSetCapacity

NoOp == [op |-> "none", arg |-> "-", id |-> 0 - 1, result |-> None]

SourceStart ==
    /\ ss_state = "built"
    /\ source_set = source_set_empty
    /\ ss_before = source_set_empty
    /\ ss_added = <<>>
    /\ ss_taken = {}
    /\ ss_last = NoOp

SourceIdle ==
    /\ ss_state = "idle"
    /\ source_set = source_set_empty
    /\ ss_before = source_set_empty
    /\ ss_added = <<>>
    /\ ss_taken = {}
    /\ ss_last = NoOp

\* The added ids take has been called on, the last call included.
taken_now ==
    IF ss_last.op = "take" /\ ss_last.id < Len(ss_added)
    THEN ss_taken \cup {ss_last.id}
    ELSE ss_taken

Add ==
    /\ ss_state = "built"
    /\ ~push_panics(source_set)
    /\ \E table \in SourceTables :
          LET r == source_set_add(source_set, table) IN
              /\ source_set' = r.set
              /\ ss_last' = [op |-> "add", arg |-> table, id |-> r.result, result |-> None]
              /\ ss_added' = Append(ss_added, table)
    /\ ss_before' = source_set
    /\ ss_taken' = taken_now
    /\ UNCHANGED ss_state
    /\ UNCHANGED <<layoutVars, authVars, indexVars, optVars, flattenVars, rewriteVars, compareVars>>

AddToFull ==
    /\ ss_state = "built"
    /\ push_panics(source_set)
    /\ \E table \in SourceTables :
          ss_last' = [op |-> "add", arg |-> table, id |-> 0 - 1, result |-> None]
    /\ ss_state' = "panicked"
    /\ ss_before' = source_set
    /\ ss_taken' = taken_now
    /\ UNCHANGED <<source_set, ss_added>>
    /\ UNCHANGED <<layoutVars, authVars, indexVars, optVars, flattenVars, rewriteVars, compareVars>>

Take ==
    /\ ss_state = "built"
    /\ \E id \in SourceIds :
          LET r == source_set_take(source_set, id) IN
              /\ source_set' = r.set
              /\ ss_last' = [op |-> "take", arg |-> "-", id |-> id, result |-> r.result]
    /\ ss_before' = source_set
    /\ ss_taken' = taken_now
    /\ UNCHANGED <<ss_state, ss_added>>
    /\ UNCHANGED <<layoutVars, authVars, indexVars, optVars, flattenVars, rewriteVars, compareVars>>

NextSource == Add \/ AddToFull \/ Take

\* C13: add returns the number of entries added before it; the first take of
\* an added id returns its table and every later take of it returns None; take
\* of an id never added returns None; take changes neither len() nor
\* is_empty() nor the entry of any other id.
C13_AddTakeContract ==
    /\ (ss_state = "built" /\ ss_last.op = "add") =>
          /\ ss_last.id = Len(ss_added) - 1
          /\ ss_last.id = source_set_len(ss_before)
          /\ source_set[ss_last.id + 1] = Some(ss_last.arg)
    /\ ss_last.op = "take" =>
          /\ ss_last.result =
                IF ss_last.id < Len(ss_added) /\ ss_last.id \notin ss_taken
                THEN Some(ss_added[ss_last.id + 1])
                ELSE None
          /\ source_set_len(source_set) = source_set_len(ss_before)
          /\ source_set_is_empty(source_set) = source_set_is_empty(ss_before)
          /\ \A other \in 0 .. Len(source_set) - 1 :
                other # ss_last.id => source_set[other + 1] = ss_before[other + 1]

\* An added id has been taken a second time, with another entry still in
\* place.
C13_Witness ==
    /\ ss_last.op = "take"
    /\ ss_last.id < Len(ss_added)
    /\ ss_last.id \in ss_taken
    /\ ss_last.result = None
    /\ \E other \in 0 .. Len(source_set) - 1 : source_set[other + 1] # None


(***************************************************************************)
(* Conjunction flattening: every tree of ANDs over a few leaves.           *)
(***************************************************************************)
MaxLeaves == 4

FlatField(col) == FieldName(1, col)

FlatHeader == Header(1, "t1", <<FlatField(0), FlatField(1)>>, <<>>)

\* Leaves that are no AND: two comparisons, an OR, a literal that is not a
\* bool, and a comparison on a column the header lacks.
FlatLeaves ==
    {cmp(FlatField(0), "Eq", IntValue(1)),
     cmp(FlatField(1), "Gt", IntValue(1)),
     Cmp("Or", cmp(FlatField(0), "Eq", IntValue(0)), cmp(FlatField(1), "Eq", IntValue(0))),
     Field(FieldExprValue(IntValue(1))),
     cmp(FlatField(2), "Eq", IntValue(1))}

FlatRows == [1 .. 2 -> {IntValue(x) : x \in 0 .. 2}]

RECURSIVE AndTrees(_)
\* Every way of bracketing a list of leaves with ANDs, the order kept.
AndTrees(leaves) ==
    IF Len(leaves) = 1 THEN {leaves[1]}
    ELSE UNION {{and(l, r) : l \in AndTrees(SubSeq(leaves, 1, k)),
                             r \in AndTrees(SubSeq(leaves, k + 1, Len(leaves)))}
                : k \in 1 .. Len(leaves) - 1}

NoFlat == <<>>

FlattenStart ==
    /\ fpc = "new"
    /\ flat_leaves \in SeqsUpTo(FlatLeaves, MaxLeaves) \ {<<>>}
    /\ flat_pred \in AndTrees(flat_leaves)
    /\ flat = NoFlat
    /\ flat_ref = NoFlat

FlattenIdle ==
    /\ fpc = "idle"
    /\ flat_leaves = <<>>
    /\ flat_pred = Field(FieldExprValue(BoolValue(TRUE)))
    /\ flat = NoFlat
    /\ flat_ref = NoFlat

FlattenAnds ==
    /\ fpc = "new"
    /\ flat = NoFlat
    /\ flat' = flatten_ands(flat_pred)
    /\ UNCHANGED <<fpc, flat_leaves, flat_pred, flat_ref>>
    /\ UNCHANGED <<layoutVars, authVars, indexVars, optVars, sourceVars, rewriteVars, compareVars>>

FlattenAndsRef ==
    /\ fpc = "new"
    /\ flat_ref = NoFlat
    /\ flat_ref' = flatten_ands_ref(flat_pred)
    /\ UNCHANGED <<fpc, flat_leaves, flat_pred, flat>>
    /\ UNCHANGED <<layoutVars, authVars, indexVars, optVars, sourceVars, rewriteVars, compareVars>>

NextFlatten == FlattenAnds \/ FlattenAndsRef

is_and(op) == op.tag = "Cmp" /\ op.op = "And"

\* A flat list is the leaves of the tree in order, holds no AND, and its
\* AND-reduction evaluates like the tree on every row.
flattens(ops, tree, leaves) ==
    /\ ops = leaves
    /\ \A i \in 1 .. Len(ops) : ~is_and(ops[i])
    /\ \A r \in FlatRows : compare(and_all(ops), r, FlatHeader) = compare(tree, r, FlatHeader)

\* C14: flatten_ands and flatten_ands_ref return the non-AND sub-predicates of
\* a tree in left-to-right order, none of them an AND node (a predicate that
\* is no AND gives the one-element list), and the AND-reduction of the list
\* evaluates like the tree on every row.
C14_FlattenAnds ==
    /\ flat # NoFlat => flattens(flat, flat_pred, flat_leaves)
    /\ flat_ref # NoFlat => flattens(flat_ref, flat_pred, flat_leaves)
    /\ (flat # NoFlat /\ ~is_and(flat_pred)) => flat = <<flat_pred>>

\* AND(AND(x, AND(y, z)), w) has been flattened both ways, into [x, y, z, w].
C14_Witness ==
    /\ Len(flat_leaves) = 4
    /\ flat_pred = and(and(flat_leaves[1], and(flat_leaves[2], flat_leaves[3])), flat_leaves[4])
    /\ flat = flat_leaves
    /\ flat_ref = flat_leaves
    /\ \E r \in FlatRows : compare(flat_pred, r, FlatHeader) = EvalOk(TRUE)


\* The plans optimize is called on while it optimizes p: p and the rhs plans
\* of its inner joins.
plan_levels(p) ==
    {p} \cup {p.query[i].rhs : i \in {j \in 1 .. Len(p.query) : p.query[j].tag = "JoinInner"}}

\* C15: optimize terminates, and at any one plan level it calls itself on its
\* own result at most once: when the round leaves a plan whose sole operator
\* is an IndexJoin, the second call only reorders that join and returns.
C15_OptimizeReentersOnce ==
    opc = "optimized" =>
        \A p \in plan_levels(opt_plan) :
            /\ optimize_reentries(p, opt_row_count, MaxPasses) <= 1
            /\ LET q == IF is_index_join_only(p.query) THEN p
                        ELSE optimize_round(p, opt_row_count)
               IN  is_index_join_only(q.query) =>
                       optimize(p, opt_row_count)
                           = QueryExpr(q.source, <<reorder(q.query[1], opt_row_count)>>)

\* A join with a projection was turned into an IndexJoin by the round, and
\* optimize called itself once on it.
C15_Witness ==
    /\ opc = "optimized"
    /\ ~is_index_join_only(opt_plan.query)
    /\ optimize_reentries(opt_plan, opt_row_count, MaxPasses) = 1
    /\ is_index_join_only(optimized.query)


(***************************************************************************)
(* Plan rewrites applied on their own: with_index_eq,                      *)
(* with_index_lower_bound, with_index_upper_bound, try_index_join and      *)
(* IndexJoin::reorder.                                                     *)
(***************************************************************************)
MaxRwOps == 2

\* An in-memory table of the rows of rhs.
RhsDeltaId == 1

RhsDelta == SourceInMemory(RhsDeltaId, OptHeader(RhsId, "rhs", <<>>), "Public", 0)

\* Operators of a plan over lhs: the joins of the optimizer's universe, a
\* join with an in-memory rhs, a join on a column lhs lacks, filters, index
\* scans with one bound, and a projection.
RwOps ==
    OptJoins
        \cup {JoinInner(QueryExpr(RhsDelta, <<>>), FieldName(LhsId, 0), FieldName(RhsId, 0), FALSE),
              JoinInner(OptRhsSargable, FieldName(RhsId, 1), FieldName(RhsId, 0), TRUE),
              Select(cmp(FieldName(LhsId, 1), "Gt", IntValue(1))),
              Select(cmp(FieldName(RhsId, 1), "Gt", IntValue(1))),
              IndexScan(LhsTable, <<0>>, <<Included(IntValue(0)), Unbounded>>),
              IndexScan(LhsTable, <<0>>, <<Unbounded, Excluded(IntValue(3))>>),
              OptWildcard(LhsId)}

RwPlans == {QueryExpr(s, q) : s \in OptSources, q \in SeqsUpTo(RwOps, MaxRwOps)}

\* The constraint: column 0 of the table against the literal 1.
RwColumns == <<0>>

RwValue == IntValue(1)

RwArgs == [table : {LhsTable, RhsTable}, inclusive : BOOLEAN]

NoArg == [table |-> LhsTable, inclusive |-> FALSE]

NoJoin == IndexJoin(NoPlan, FieldName(RhsId, 0), SourceDbTable(LhsTable), NoPred, 0, FALSE)

NoCounts == [t \in {LhsId, RhsId} |-> 0]

RewriteIdle ==
    /\ rpc = "idle"
    /\ rw_plan = NoPlan
    /\ rw_arg = NoArg
    /\ rw_join = NoJoin
    /\ rw_row_count = NoCounts
    /\ rw_out = NoPlan

\* Index scans on lhs: one-sided on column 0 with the literal of the
\* constraint or another one, inclusive or exclusive; one-sided on column 1;
\* two-sided; a point.
RwScans ==
    {IndexScan(LhsTable, <<0>>, <<b, Unbounded>>) :
        b \in {Included(IntValue(0)), Excluded(IntValue(0)), Excluded(IntValue(1))}}
        \cup {IndexScan(LhsTable, <<0>>, <<Unbounded, b>>) :
                  b \in {Included(IntValue(3)), Excluded(IntValue(3)), Excluded(IntValue(1))}}
        \cup {IndexScan(LhsTable, <<1>>, <<Included(IntValue(0)), Unbounded>>),
              IndexScan(LhsTable, <<1>>, <<Unbounded, Excluded(IntValue(1))>>),
              IndexScan(LhsTable, <<0>>, <<Included(IntValue(0)), Excluded(IntValue(3))>>),
              IndexScan(LhsTable, <<0>>, point(IntValue(2)))}

\* Plans that end in an index scan, after filters and projections.
RwScanPlans ==
    {QueryExpr(SourceDbTable(LhsTable), before \o <<scan>>) :
        before \in SeqsUpTo({Select(cmp(FieldName(LhsId, 1), "Gt", IntValue(1))),
                             OptWildcard(LhsId)}, MaxRwOps - 1),
        scan \in RwScans}

\* A plan and a constraint for with_index_*.
PushdownStart ==
    /\ rpc = "new"
    /\ rw_plan \in RwPlans \cup RwScanPlans
    /\ rw_arg \in RwArgs
    /\ rw_join = NoJoin
    /\ rw_row_count = NoCounts
    /\ rw_out = NoPlan

WithIndexEq ==
    /\ rpc = "new"
    /\ rpc' = "eq"
    /\ rw_out' = with_index_eq(rw_plan, rw_arg.table, RwColumns, RwValue)
    /\ UNCHANGED <<rw_plan, rw_arg, rw_join, rw_row_count>>
    /\ UNCHANGED <<layoutVars, authVars, indexVars, optVars, sourceVars, flattenVars, compareVars>>

WithIndexLowerBound ==
    /\ rpc = "new"
    /\ rpc' = "lower"
    /\ rw_out' = with_index_lower_bound(rw_plan, rw_arg.table, RwColumns, RwValue,
                                        rw_arg.inclusive)
    /\ UNCHANGED <<rw_plan, rw_arg, rw_join, rw_row_count>>
    /\ UNCHANGED <<layoutVars, authVars, indexVars, optVars, sourceVars, flattenVars, compareVars>>

WithIndexUpperBound ==
    /\ rpc = "new"
    /\ rpc' = "upper"
    /\ rw_out' = with_index_upper_bound(rw_plan, rw_arg.table, RwColumns, RwValue,
                                        rw_arg.inclusive)
    /\ UNCHANGED <<rw_plan, rw_arg, rw_join, rw_row_count>>
    /\ UNCHANGED <<layoutVars, authVars, indexVars, optVars, sourceVars, flattenVars, compareVars>>

NextPushdown == WithIndexEq \/ WithIndexLowerBound \/ WithIndexUpperBound

\* The last op of the plan is a JoinInner whose rhs source is a DbTable other
\* than the table of the constraint.
JoinOnOtherTable(p, table) ==
    /\ p.query # <<>>
    /\ p.query[Len(p.query)].tag = "JoinInner"
    /\ p.query[Len(p.query)].rhs.source.kind = "DbTable"
    /\ p.query[Len(p.query)].rhs.source.db_table.table_id # table.table_id

\* The columns are those of an indexed constraint of the table.
forms_index(table, columns) ==
    \E i \in 1 .. Len(table.head.constraints) :
        table.head.constraints[i].indexed /\ table.head.constraints[i].cols = columns

\* The index scans of a plan's own operators.
index_scans(p) == {p.query[i] : i \in {j \in 1 .. Len(p.query) : p.query[j].tag = "IndexScan"}}

\* The join is the last op again, and every index scan beneath it that the
\* plan did not have is a scan of the constraint's table on an index of it.
PushedBelowJoin ==
    /\ rw_out.query # <<>>
    /\ last_op(rw_out) = last_op(rw_plan)
    /\ \A scan \in index_scans(popped(rw_out)) \ index_scans(popped(rw_plan)) :
          /\ scan.table = rw_arg.table
          /\ forms_index(scan.table, scan.columns)

\* C16: when with_index_eq, with_index_lower_bound or with_index_upper_bound
\* meets a last op JoinInner whose rhs source is a DbTable other than the
\* constraint's table T, the constraint goes to the plan beneath the join, the
\* join is pushed back as the last op, and every IndexScan so created has
\* table = T.
C16_PushBelowJoin ==
    (rpc \in {"eq", "lower", "upper"} /\ JoinOnOtherTable(rw_plan, rw_arg.table))
        => /\ PushedBelowJoin
           /\ popped(rw_out) =
                 CASE rpc = "eq" -> with_index_eq(popped(rw_plan), rw_arg.table, RwColumns, RwValue)
                   [] rpc = "lower" -> with_index_lower_bound(popped(rw_plan), rw_arg.table,
                                                              RwColumns, RwValue, rw_arg.inclusive)
                   [] rpc = "upper" -> with_index_upper_bound(popped(rw_plan), rw_arg.table,
                                                              RwColumns, RwValue, rw_arg.inclusive)

\* with_index_eq or a bound was pushed below a join on the other table and
\* created an index scan beneath it.
C16_Witness ==
    /\ rpc \in {"eq", "lower", "upper"}
    /\ JoinOnOtherTable(rw_plan, rw_arg.table)
    /\ index_scans(popped(rw_out)) \ index_scans(popped(rw_plan)) # {}
    /\ last_op(rw_out) = last_op(rw_plan)


\* The last op is an index scan on the columns of the constraint that lacks
\* the bound being added and has the other one.
complements(scan, side) ==
    /\ scan.tag = "IndexScan"
    /\ scan.columns = RwColumns
    /\ scan.bounds[side].kind = "Unbounded"
    /\ scan.bounds[3 - side].kind \in {"Included", "Excluded"}

\* The side of the bound the rewrite adds: 1 lower, 2 upper.
added_side == IF rpc = "lower" THEN 1 ELSE 2

\* The bound of the constraint.
added_bound ==
    [kind |-> IF rw_arg.inclusive THEN "Included" ELSE "Excluded", value |-> RwValue]

\* C24: with_index_lower_bound on a plan whose last op is an IndexScan on the
\* same columns with an upper bound only (and with_index_upper_bound on one
\* with a lower bound only) replaces that op by one IndexScan with both
\* bounds, the existing bound kept with its value and inclusiveness, the
\* number of ops and the earlier ops unchanged; in every other case where the
\* last op is no join and no Select, the last op stays and a new Select is
\* appended.
C24_MergeBounds ==
    (rpc \in {"lower", "upper"} /\ rw_plan.query # <<>>
        /\ last_op(rw_plan).tag \notin {"JoinInner", "Select"})
        => IF complements(last_op(rw_plan), added_side)
           THEN /\ Len(rw_out.query) = Len(rw_plan.query)
                /\ popped(rw_out) = popped(rw_plan)
                /\ last_op(rw_out).tag = "IndexScan"
                /\ last_op(rw_out).columns = RwColumns
                /\ last_op(rw_out).bounds[added_side] = added_bound
                /\ last_op(rw_out).bounds[3 - added_side]
                      = last_op(rw_plan).bounds[3 - added_side]
           ELSE /\ popped(rw_out) = rw_plan
                /\ last_op(rw_out).tag = "Select"

\* A lower bound was merged into a scan with an exclusive upper bound, after
\* an earlier op.
C24_Witness ==
    /\ rpc = "lower"
    /\ Len(rw_plan.query) = 2
    /\ complements(last_op(rw_plan), 1)
    /\ last_op(rw_plan).bounds[2].kind = "Excluded"
    /\ last_op(rw_out).tag = "IndexScan"
    /\ last_op(rw_out).bounds[1].kind # "Unbounded"
    /\ last_op(rw_out).bounds[2] = last_op(rw_plan).bounds[2]

\* The rows of lhs the merged scans are looked at on.
RwRows == [1 .. 2 -> {IntValue(x) : x \in 0 .. 3}]

\* The new bound is exclusive and meets an exclusive bound of the same value
\* on the other side of a scan on the same columns.
equal_excluded ==
    /\ rpc \in {"lower", "upper"}
    /\ rw_plan.query # <<>>
    /\ complements(last_op(rw_plan), added_side)
    /\ last_op(rw_plan).bounds[3 - added_side] = [kind |-> "Excluded", value |-> RwValue]
    /\ ~rw_arg.inclusive

\* C25: merging a new exclusive bound with an exclusive bound of the same
\* value v on the same columns does not fail: the plan comes back with the
\* IndexScan (Excluded(v), Excluded(v)) as its last op, which selects no row;
\* the case is the one the warning is logged for.
C25_EqualExcludedBounds ==
    equal_excluded =>
        /\ is_never(rw_arg.inclusive, RwValue, last_op(rw_plan).bounds[3 - added_side].value)
        /\ rw_out.source = rw_plan.source
        /\ Len(rw_out.query) = Len(rw_plan.query)
        /\ last_op(rw_out).tag = "IndexScan"
        /\ last_op(rw_out).bounds
              = <<[kind |-> "Excluded", value |-> RwValue], [kind |-> "Excluded", value |-> RwValue]>>
        /\ \A r \in RwRows :
              compare(from_op_col_bounds(last_op(rw_out).table.head, last_op(rw_out).columns,
                                         last_op(rw_out).bounds),
                      r, last_op(rw_out).table.head) = EvalOk(FALSE)

\* x < 1 was followed by x > 1 and the other way round.
C25_Witness ==
    /\ equal_excluded
    /\ last_op(rw_out).bounds[1] = last_op(rw_out).bounds[2]
    /\ last_op(rw_out).bounds[1].kind = "Excluded"


(***************************************************************************)
(* try_index_join and IndexJoin::reorder applied on their own.             *)
(***************************************************************************)
\* An in-memory table of the rows of rhs that kept the index of rhs in its
\* header.
RhsDeltaIndexed ==
    SourceInMemory(RhsDeltaId, OptHeader(RhsId, "rhs", <<Indexed(<<0>>)>>), "Public", 0)

\* Operators of a probe side over rhs: a filter, an index scan, a projection.
RwProbeOps ==
    {Select(cmp(FieldName(RhsId, 1), "Gt", IntValue(1))),
     IndexScan(RhsTable, <<0>>, <<Included(IntValue(1)), Unbounded>>),
     OptWildcard(RhsId)}

RwProbeSides ==
    {QueryExpr(s, q) : s \in {SourceDbTable(RhsTable), RhsDelta, RhsDeltaIndexed},
                       q \in SeqsUpTo(RwProbeOps, MaxRwOps)}

RwJoins ==
    {IndexJoin(probe, FieldName(RhsId, c), index_side, index_select, 0, rows) :
        probe \in RwProbeSides, c \in 0 .. 1, index_side \in OptSources,
        index_select \in {NoPred, cmp(FieldName(LhsId, 1), "Gt", IntValue(1))},
        rows \in BOOLEAN}

\* A plan for try_index_join, or an index join and a row_count oracle for
\* reorder.
JoinStart ==
    /\ rw_arg = NoArg
    /\ rw_out = NoPlan
    /\ \/ /\ rpc = "plan"
          /\ rw_plan \in RwPlans
          /\ rw_join = NoJoin
          /\ rw_row_count = NoCounts
       \/ /\ rpc = "join"
          /\ rw_plan = NoPlan
          /\ rw_join \in RwJoins
          /\ rw_row_count \in RowCounts

TryIndexJoin ==
    /\ rpc = "plan"
    /\ rpc' = "index_joined"
    /\ rw_out' = try_index_join(rw_plan)
    /\ UNCHANGED <<rw_plan, rw_arg, rw_join, rw_row_count>>
    /\ UNCHANGED <<layoutVars, authVars, indexVars, optVars, sourceVars, flattenVars, compareVars>>

Reorder ==
    /\ rpc = "join"
    /\ rpc' = "reordered"
    /\ rw_out' = reorder(rw_join, rw_row_count)
    /\ UNCHANGED <<rw_plan, rw_arg, rw_join, rw_row_count>>
    /\ UNCHANGED <<layoutVars, authVars, indexVars, optVars, sourceVars, flattenVars, compareVars>>

ToInnerJoin ==
    /\ rpc = "join"
    /\ rpc' = "inner_joined"
    /\ rw_out' = to_inner_join(rw_join)
    /\ UNCHANGED <<rw_plan, rw_arg, rw_join, rw_row_count>>
    /\ UNCHANGED <<layoutVars, authVars, indexVars, optVars, sourceVars, flattenVars, compareVars>>

NextJoin == TryIndexJoin \/ Reorder \/ ToInnerJoin

\* The field is a column of the header and an indexed constraint names it.
carries_index(header, field) ==
    \E pos \in 0 .. Len(header.fields) - 1 :
        /\ header.fields[pos + 1] = field
        /\ \E i \in 1 .. Len(header.constraints) :
              /\ header.constraints[i].indexed
              /\ \E j \in 1 .. Len(header.constraints[i].cols) :
                    header.constraints[i].cols[j] = pos

\* The ops are a single semijoin with a filtered rhs, over a DbTable with an
\* index on col_lhs.
IndexJoinPattern(p) ==
    /\ Len(p.query) = 1
    /\ p.query[1].tag = "JoinInner"
    /\ p.query[1].semi
    /\ p.source.kind = "DbTable"
    /\ p.query[1].rhs.query # <<>>
    /\ carries_index(head(p.source), p.query[1].col_lhs)

\* C19: try_index_join replaces the ops by the single IndexJoin { probe_side =
\* join rhs, probe_field = col_rhs, index_side = source, index_col = position
\* of col_lhs, index_select = None, return_index_rows = true } exactly when
\* the ops are a single JoinInner with semi = true, the source is a DbTable,
\* the rhs plan has an op and col_lhs is indexed in the source header; the
\* plan comes back unchanged otherwise.
C19_TryIndexJoin ==
    rpc = "index_joined" =>
        IF IndexJoinPattern(rw_plan)
        THEN LET join == rw_plan.query[1]
             IN  /\ rw_out.source = rw_plan.source
                 /\ rw_out.query =
                       <<[tag |-> "IndexJoin", probe_side |-> join.rhs,
                          probe_field |-> join.col_rhs, index_side |-> rw_plan.source,
                          index_select |-> NoPred,
                          index_col |-> CHOOSE pos \in 0 .. 1 :
                                            head(rw_plan.source).fields[pos + 1] = join.col_lhs,
                          return_index_rows |-> TRUE]>>
        ELSE rw_out = rw_plan

\* A semijoin with a filtered rhs on the indexed column of lhs became an
\* index join.
C19_Witness ==
    /\ rpc = "index_joined"
    /\ IndexJoinPattern(rw_plan)
    /\ is_index_join_only(rw_out.query)
    /\ rw_out.query[1].probe_side = rw_plan.query[1].rhs


\* The index side is a DbTable of at most 500 rows, or an in-memory source.
index_side_is_small(join, row_count) ==
    \/ /\ join.index_side.kind = "DbTable"
       /\ row_count[join.index_side.db_table.table_id] <= 500
    \/ join.index_side.kind = "InMemory"

\* The probe side is a linear pipeline: selections and index scans only.
linear_probe(join) ==
    \A i \in 1 .. Len(join.probe_side.query) :
        join.probe_side.query[i].tag \in {"Select", "IndexScan"}

\* The sides of the join have been swapped: the index side is the new probe
\* side with the index selection as its filter, the probe table is the new
\* index side with the probe filters as its selection, and the rows returned
\* are those of the other side.
swapped(join, out) ==
    /\ out.probe_side.source = join.index_side
    /\ out.probe_side.query =
          IF join.index_select = NoPred THEN <<>> ELSE <<Select(join.index_select)>>
    /\ out.probe_field = head(join.index_side).fields[join.index_col + 1]
    /\ out.index_side = join.probe_side.source
    /\ out.index_select =
          IF join.probe_side.query = <<>> THEN NoPred
          ELSE and_all([i \in 1 .. Len(join.probe_side.query) |->
                           query_predicate(join.probe_side.query[i])])
    /\ head(out.index_side).fields[out.index_col + 1] = join.probe_field
    /\ out.return_index_rows = ~join.return_index_rows

\* C20: reorder swaps the sides when the probe source is a DbTable with an
\* index on the probe field, the probe side is a linear pipeline of selections
\* and index scans, and the index side is a DbTable of at most 500 rows (500
\* swaps, 501 does not) or an in-memory source; otherwise the join comes back
\* unchanged.
C20_ReorderSwaps ==
    rpc = "reordered" =>
        IF /\ rw_join.probe_side.source.kind = "DbTable"
           /\ carries_index(head(rw_join.probe_side.source), rw_join.probe_field)
           /\ linear_probe(rw_join)
           /\ index_side_is_small(rw_join, rw_row_count)
        THEN swapped(rw_join, rw_out)
        ELSE rw_out = rw_join

\* C20 as stated: the index on the probe field and the small index side
\* decide alone.
C20_ReorderSwapsWhateverTheProbe ==
    rpc = "reordered" =>
        IF /\ carries_index(head(rw_join.probe_side.source), rw_join.probe_field)
           /\ index_side_is_small(rw_join, rw_row_count)
        THEN swapped(rw_join, rw_out)
        ELSE rw_out = rw_join

\* A join whose index side is a DbTable of exactly 500 rows was swapped, its
\* probe filters pulled into the index selection.
C20_Witness ==
    /\ rpc = "reordered"
    /\ rw_join.index_side.kind = "DbTable"
    /\ rw_row_count[rw_join.index_side.db_table.table_id] = 500
    /\ rw_join.probe_side.query # <<>>
    /\ swapped(rw_join, rw_out)
    /\ rw_out # rw_join


\* reorder swapped the sides: the rows returned are those of the other side.
reorder_swapped == rpc = "reordered" /\ rw_out.return_index_rows # rw_join.return_index_rows

\* The probe-side ops that filter: selections and index scans.
probe_filters(join) ==
    {join.probe_side.query[i] :
        i \in {j \in 1 .. Len(join.probe_side.query) :
                  join.probe_side.query[j].tag \in {"Select", "IndexScan"}}}

\* The filter as a predicate: the predicate of a Select, the bounds of an
\* IndexScan as comparisons on its columns.
filter_conjuncts(q) ==
    IF q.tag = "Select" THEN conjuncts_of(q.pred)
    ELSE conjuncts_of(from_op_col_bounds(q.table.head, q.columns, q.bounds))

\* C21: when reorder swaps, the new probe side is the former index side with
\* the former index_select as its only filter (no ops if there was none), the
\* new index side is the former probe source, the new index_select is the AND
\* of the former probe-side Select and IndexScan ops (None if there were
\* none) and so holds every one of their conjuncts, probe_field is the former
\* index field, index_col the former probe column, and return_index_rows is
\* negated.
C21_ReorderResult ==
    reorder_swapped =>
        /\ rw_out.tag = "IndexJoin"
        /\ rw_out.probe_side =
              [source |-> rw_join.index_side,
               query |-> IF rw_join.index_select = NoPred THEN <<>>
                         ELSE <<[tag |-> "Select", pred |-> rw_join.index_select]>>]
        /\ rw_out.index_side = rw_join.probe_side.source
        /\ rw_out.probe_field = head(rw_join.index_side).fields[rw_join.index_col + 1]
        /\ rw_out.index_col = column_pos(head(rw_join.probe_side.source), rw_join.probe_field)
        /\ rw_out.return_index_rows = ~rw_join.return_index_rows
        /\ (probe_filters(rw_join) = {}) <=> (rw_out.index_select = NoPred)
        /\ \A q \in probe_filters(rw_join) :
              filter_conjuncts(q) \subseteq conjuncts_of(rw_out.index_select)
        /\ rw_out.index_select # NoPred =>
              conjuncts_of(rw_out.index_select)
                  \subseteq UNION {filter_conjuncts(q) : q \in probe_filters(rw_join)}

\* A join with a Select and an IndexScan on its probe side and an index
\* selection was swapped.
C21_Witness ==
    /\ reorder_swapped
    /\ \E q \in probe_filters(rw_join) : q.tag = "IndexScan"
    /\ \E q \in probe_filters(rw_join) : q.tag = "Select"
    /\ rw_join.index_select # NoPred
    /\ Len(flatten_ands(rw_out.index_select)) = 2


\* The field of the index side the join is on.
index_field(join) == head(join.index_side).fields[join.index_col + 1]

\* The index side as a plan: the source followed by index_select.
index_side_plan(join) ==
    [source |-> join.index_side,
     query |-> IF join.index_select = NoPred THEN <<>>
               ELSE <<[tag |-> "Select", pred |-> join.index_select]>>]

\* C22: to_inner_join yields a semijoin plan that keeps every filter of the
\* index join.  For return_index_rows = false the source is the probe source,
\* the join rhs is the index side followed by index_select, col_lhs =
\* probe_field, col_rhs = the index field, and the ops of the probe side are
\* still in the plan; for return_index_rows = true the source is the index
\* side with index_select as first op and the join rhs is the whole probe
\* side.
C22_ToInnerJoin ==
    rpc = "inner_joined" =>
        LET join == last_op(rw_out)
        IN  /\ join.tag = "JoinInner"
            /\ join.semi
            /\ IF rw_join.return_index_rows
               THEN /\ rw_out.source = rw_join.index_side
                    /\ popped(rw_out).query = index_side_plan(rw_join).query
                    /\ join.rhs = rw_join.probe_side
                    /\ join.col_lhs = index_field(rw_join)
                    /\ join.col_rhs = rw_join.probe_field
               ELSE /\ rw_out.source = rw_join.probe_side.source
                    /\ join.rhs = index_side_plan(rw_join)
                    /\ join.col_lhs = rw_join.probe_field
                    /\ join.col_rhs = index_field(rw_join)
                    /\ popped(rw_out).query = rw_join.probe_side.query

\* An index join that returns index rows, with filters on both sides, became
\* a semijoin whose rhs is the whole probe side.
C22_Witness ==
    /\ rpc = "inner_joined"
    /\ rw_join.return_index_rows
    /\ rw_join.index_select # NoPred
    /\ rw_join.probe_side.query # <<>>
    /\ Len(rw_out.query) = 2
    /\ rw_out.query[2].rhs = rw_join.probe_side


(***************************************************************************)
(* Predicate evaluation on its own: ColumnOp::compare of a predicate on a  *)
(* row of t1(a, b), a an integer column and b a boolean one.               *)
(***************************************************************************)
CmpHeader == Header(1, "t1", <<FieldName(1, 0), FieldName(1, 1)>>, <<>>)

CmpRows ==
    {<<IntValue(a), BoolValue(b)>> : a \in 0 .. 1, b \in BOOLEAN}

\* The leaves: a field or a literal, of a bool or of another type, and the
\* comparisons of column a with a literal.
CmpLeaves ==
    {Field(FieldExprName(FieldName(1, 0))), Field(FieldExprName(FieldName(1, 1))),
     Field(FieldExprValue(BoolValue(TRUE))), Field(FieldExprValue(IntValue(1)))}
        \cup {cmp(FieldName(1, 0), o, IntValue(1)) : o \in {"Eq", "NotEq", "Lt"}}

CmpPairs == {Cmp(o, l, r) : o \in OpLogic, l \in CmpLeaves, r \in CmpLeaves}

\* Predicates of up to two levels of AND and OR.
CmpPreds ==
    CmpLeaves \cup CmpPairs
        \cup {Cmp(o, l, r) : o \in OpLogic, l \in CmpPairs, r \in CmpLeaves}
        \cup {Cmp(o, l, r) : o \in OpLogic, l \in CmpLeaves, r \in CmpPairs}

NoResult == [status |-> "None"]

CompareStart ==
    /\ cpc = "new"
    /\ cmp_pred \in CmpPreds
    /\ cmp_row \in CmpRows
    /\ cmp_result = NoResult

CompareIdle ==
    /\ cpc = "idle"
    /\ cmp_pred = Field(FieldExprValue(BoolValue(TRUE)))
    /\ cmp_row = <<>>
    /\ cmp_result = NoResult

\* cmp_pred.compare(&cmp_row, &header)
Compare ==
    /\ cpc = "new"
    /\ cmp_result' = compare(cmp_pred, cmp_row, CmpHeader)
    /\ cpc' = "compared"
    /\ UNCHANGED <<cmp_pred, cmp_row>>
    /\ UNCHANGED <<layoutVars, authVars, indexVars, optVars, sourceVars, flattenVars, rewriteVars>>

NextCompare == Compare

is_logic(op) == op.tag = "Cmp" /\ op.op \in OpLogic

\* The right child of the predicate, evaluated on its own as a bool, fails.
right_child_fails ==
    reduce_bool(cmp_row, cmp_pred.rhs, CmpHeader).status # "Ok"

\* The left child of the predicate evaluates to the given bool.
left_child_is(b) ==
    reduce_bool(cmp_row, cmp_pred.lhs, CmpHeader) = EvalOk(b)

\* C28: evaluation short-circuits the logical operators: an AND whose left
\* child evaluates to false is false, an OR whose left child evaluates to
\* true is true, whatever the right child would do when evaluated, an error
\* included.
C28_ShortCircuit ==
    (cpc = "compared" /\ is_logic(cmp_pred)) =>
        /\ (cmp_pred.op = "And" /\ left_child_is(FALSE)) => cmp_result = EvalOk(FALSE)
        /\ (cmp_pred.op = "Or" /\ left_child_is(TRUE)) => cmp_result = EvalOk(TRUE)

\* a = 1 AND <the integer column a> on a row with a = 0: the left child is
\* false and only the right child fails.
C28_Witness ==
    /\ cpc = "compared"
    /\ cmp_pred = and(cmp(FieldName(1, 0), "Eq", IntValue(1)), Field(FieldExprName(FieldName(1, 0))))
    /\ cmp_row[1] = IntValue(0)
    /\ left_child_is(FALSE)
    /\ right_child_fails

RECURSIVE meets_non_bool(_, _)
\* Evaluation of the predicate on the row reaches, in a bool context, a
\* Field leaf whose value is no bool: the predicate itself, or a child of an
\* AND or OR at any depth.
meets_non_bool(op, row_) ==
    IF op.tag = "Field"
    THEN LET f == get(row_, op.field, CmpHeader)
         IN  f.status = "Ok" /\ ~ as_bool(f.val)
    ELSE IF op.op \in OpLogic
    THEN meets_non_bool(op.lhs, row_) \/ meets_non_bool(op.rhs, row_)
    ELSE \/ op.lhs.tag = "Cmp" /\ meets_non_bool(op.lhs, row_)
         \/ op.rhs.tag = "Cmp" /\ meets_non_bool(op.rhs, row_)

\* C29: whenever compare meets a non-bool value in a bool context, as the
\* whole predicate or as a child of AND or OR, it returns an error value;
\* it never panics.
C29_TypeErrorNotPanic ==
    cpc = "compared" =>
        /\ cmp_result # EvalPanic
        /\ meets_non_bool(cmp_pred, cmp_row) => cmp_result = EvalErr

\* The integer column a as the whole predicate.
C29_Witness ==
    /\ cpc = "compared"
    /\ cmp_pred = Field(FieldExprName(FieldName(1, 0)))
    /\ meets_non_bool(cmp_pred, cmp_row)


(***************************************************************************)
(* Specifications: each runs one subsystem and holds the others idle.      *)
(***************************************************************************)
LayoutInit == LayoutStart /\ AuthIdle /\ IndexIdle /\ OptIdle /\ SourceIdle /\ FlattenIdle /\ RewriteIdle /\ CompareIdle

SpecLayout == LayoutInit /\ [][NextLayout]_vars

AuthInit == AuthStart /\ LayoutIdle /\ IndexIdle /\ OptIdle /\ SourceIdle /\ FlattenIdle /\ RewriteIdle /\ CompareIdle

SpecAuth == AuthInit /\ [][NextAuth]_vars

IndexInit == IndexStart /\ LayoutIdle /\ AuthIdle /\ OptIdle /\ SourceIdle /\ FlattenIdle /\ RewriteIdle /\ CompareIdle

SpecIndex == IndexInit /\ [][NextIndex]_vars

OptInit == OptStart /\ LayoutIdle /\ AuthIdle /\ IndexIdle /\ SourceIdle /\ FlattenIdle /\ RewriteIdle /\ CompareIdle

SpecOpt == OptInit /\ [][NextOpt]_vars

SourceInit == SourceStart /\ LayoutIdle /\ AuthIdle /\ IndexIdle /\ OptIdle /\ FlattenIdle /\ RewriteIdle /\ CompareIdle

SpecSource == SourceInit /\ [][NextSource]_vars

FlattenInit == FlattenStart /\ LayoutIdle /\ AuthIdle /\ IndexIdle /\ OptIdle /\ SourceIdle /\ RewriteIdle /\ CompareIdle

SpecFlatten == FlattenInit /\ [][NextFlatten]_vars

PushdownInit ==
    /\ PushdownStart /\ LayoutIdle /\ AuthIdle /\ IndexIdle /\ OptIdle /\ SourceIdle
    /\ FlattenIdle /\ CompareIdle

SpecPushdown == PushdownInit /\ [][NextPushdown]_vars

JoinInit == JoinStart /\ LayoutIdle /\ AuthIdle /\ IndexIdle /\ OptIdle /\ SourceIdle /\ FlattenIdle /\ CompareIdle

SpecJoin == JoinInit /\ [][NextJoin]_vars

CompareInit ==
    /\ CompareStart /\ LayoutIdle /\ AuthIdle /\ IndexIdle /\ OptIdle /\ SourceIdle
    /\ FlattenIdle /\ RewriteIdle

SpecCompare == CompareInit /\ [][NextCompare]_vars

====
